---- MODULE Spec2Model ----
(***************************************************************************)
(* Model of phoseum's media management: the bounded on-disk cache          *)
(* (src/storage.rs), the slideshow orchestrator (src/slideshow.rs) and the *)
(* command dispatch of Phoseum::run (src/lib.rs, src/control.rs).          *)
(***************************************************************************)
EXTENDS Integers, Sequences, FiniteSets, TLC

(***************************************************************************)
(* Bounds of the model and program constants                               *)
(***************************************************************************)
\* largest file length (bytes) a file or an acquire request has in the model
MaxFileSize == 3
\* largest cache capacity tried
MaxCapacity == 3
\* number of Storage calls issued after open in the cache specification
MaxCalls == 3

\* PlaylistBuilder.max_size in the model
MaxPlaylist == 2
\* number of playlist commands and of player commands the commanders send
MaxPlaylistCmds == 1
MaxPlayerCmds == 1
\* created_time of an album item is in 1..MaxTime
MaxTime == 3
\* SystemTime::now() - fresh_retention, as FreshItemSelector::new computes it
MinFreshTime == 2

TMPFILE_NAME == ".downloading.tmp"
\* a directory entry of the cache directory that is not a regular file
DirName == "subdir"
\* a caller-supplied path that is not a bare file name
BadPath == "../a"
\* bare file names of media items (AlbumItem::path)
Names == {"a", "b", "c"}
DirEntries == Names \cup {TMPFILE_NAME, DirName}
Paths == Names \cup {BadPath}

Sizes == 0..MaxFileSize
Capacities == 2..MaxCapacity
NoFile == -1

VARIABLES
    disk,       \* directory entry name -> byte length, NoFile when absent
    capacity,   \* Storage.capacity
    using,      \* Storage.using
    residents,  \* Storage.residents: file name -> Entry
    cstate,     \* "new" before Storage::open, then "open" or "open_failed"
    ret,        \* the last Storage call: its arguments and what it returned
    allOk,      \* every Storage call so far returned success (true / Ok)
    ncalls,     \* number of Storage calls made so far
    config,     \* Slideshow.config is Some
    playlist,   \* Slideshow.playlist: [set |-> is Some, items |-> the list]
    player,     \* the player behind Slideshow.player
    plock,      \* holder of the player mutex: "free", "main" or "player"
    mpc,        \* where the main thread (Phoseum::run) is
    work,       \* locals of the playlist command the main thread is handling
    pre,        \* residents as they were when replace_playlist was entered
    mres,       \* how the last start / playlist command ended
    ppc,        \* where the player consumer thread is
    pcmd,       \* the player command the consumer thread is handling
    plq,        \* playlist command channel
    pq,         \* player command channel
    nsent,      \* commands sent so far: [pl |-> .., player |-> ..]
    pb,         \* one PlaylistBuilder::build / updated call: inputs, selectors, result
    run,        \* one Phoseum::run call: terminate flag, threads, channels
    vlc,        \* a VlcPlayer: its flags and the commands it sent to VLC
    albumItems, \* one GPhotosAlbumItems iterator and the pages it asks for
    req         \* one GPhotosApi::request call: retry count and attempts

storageVars == <<disk, capacity, using, residents>>
cacheVars == <<cstate, ret, allOk, ncalls>>
slideVars == <<config, playlist, player, plock, mpc, work, pre, mres, ppc, pcmd, plq, pq, nsent>>
builderVars == <<pb>>
runVars == <<run>>
libVars == <<vlc, albumItems, req>>
vars == <<disk, capacity, using, residents, cstate, ret, allOk, ncalls,
          config, playlist, player, plock, mpc, work, pre, mres, ppc, pcmd, plq, pq, nsent,
          pb, run, vlc, albumItems, req>>

(***************************************************************************)
(* Helpers                                                                 *)
(***************************************************************************)
RECURSIVE SumOver(_, _)
SumOver(f, S) ==
    IF S = {} THEN 0
    ELSE LET x == CHOOSE y \in S : TRUE IN f[x] + SumOver(f, S \ {x})

Range(s) == {s[i] : i \in 1..Len(s)}

\* all orderings of a finite set, as sequences without repetition
Orderings(S) ==
    {s \in [1..Cardinality(S) -> S] : \A i, j \in 1..Cardinality(S) : i # j => s[i] # s[j]}

Restrict(f, S) == [x \in S |-> f[x]]

(***************************************************************************)
(* src/storage.rs                                                          *)
(***************************************************************************)
Entry_new(size) == [size |-> size, users |-> 0]

\* meta.file_type().is_file()
is_file(name) == name # DirName

scan_residents(d) ==
    [n \in {m \in DOMAIN d : d[m] # NoFile /\ is_file(m)} |-> Entry_new(d[n])]

\* residents.values().map(|e| e.size).sum()
SumSizes(res) == SumOver([n \in DOMAIN res |-> res[n].size], DOMAIN res)

valid_filename(path) == path # BadPath

\* the key of sort_unstable_by_key in try_evict
SortKeyLargestFirst(entry) == 0 - entry.size
SortKey(entry) == entry.size

\* the orders sort_unstable_by_key can leave the residents in: ascending key,
\* entries of equal key in the map's (arbitrary) iteration order
SortedOrders(res) ==
    {s \in Orderings(DOMAIN res) :
        \A i, j \in 1..Len(s) : i < j => SortKey(res[s[i]]) <= SortKey(res[s[j]])}

\* the skip condition of the scan loop of try_evict, negated
EligibleIgnoringReserved(entry, path, reserved) == entry.users = 0
Eligible(entry, path, reserved) == entry.users = 0 /\ path \notin reserved

\* the break condition of the scan loop of try_evict
ScanStops(freed, acquire_size) == freed >= acquire_size

\* the scan loop of try_evict: walks sizes from position i on
RECURSIVE EvictScan(_, _, _, _, _, _, _)
EvictScan(res, sizes, i, freed, evicted, acquire_size, reserved) ==
    IF i > Len(sizes) THEN [freed |-> freed, evicted |-> evicted]
    ELSE LET path == sizes[i]
             entry == res[path]
         IN IF ~Eligible(entry, path, reserved)
            THEN EvictScan(res, sizes, i + 1, freed, evicted, acquire_size, reserved)
            ELSE IF ScanStops(freed + entry.size, acquire_size)
                 THEN [freed |-> freed + entry.size, evicted |-> Append(evicted, path)]
                 ELSE EvictScan(res, sizes, i + 1, freed + entry.size,
                                Append(evicted, path), acquire_size, reserved)

\* self.using -= entry.size
UsingAfterEvictStale(u, entry) == u
UsingAfterEvict(u, entry) == u - entry.size

\* the removal loop of try_evict: fs::remove_file, then residents.remove.
\* remove_file fails when the file is absent, or at the failAt-th removal
\* (any other I/O error); the error leaves the loop at once.
RECURSIVE RemoveLoop(_, _, _, _)
RemoveLoop(st, keys, i, failAt) ==
    IF i > Len(keys) THEN [st EXCEPT !.result = "true"]
    ELSE LET path == keys[i] IN
         IF st.disk[path] = NoFile \/ i = failAt
         THEN [st EXCEPT !.result = "io_error"]
         ELSE RemoveLoop(
                [st EXCEPT !.disk = [st.disk EXCEPT ![path] = NoFile],
                           !.residents = Restrict(st.residents, DOMAIN st.residents \ {path}),
                           !.using = UsingAfterEvict(st.using, st.residents[path]),
                           !.evicted = Append(st.evicted, path)],
                keys, i + 1, failAt)

\* try_evict with the removals done while scanning, before the size check
try_evict_eager(st, acquire_size, reserved, sizes, failAt) ==
    LET scan == EvictScan(st.residents, sizes, 1, 0, <<>>, acquire_size, reserved)
        done == RemoveLoop(st, scan.evicted, 1, failAt)
    IN IF done.result = "io_error" THEN done
       ELSE IF scan.freed < acquire_size THEN [done EXCEPT !.result = "false"]
       ELSE done

\* st is [residents, using, disk, result, evicted]; sizes is the sorted order
try_evict(st, acquire_size, reserved, sizes, failAt) ==
    LET scan == EvictScan(st.residents, sizes, 1, 0, <<>>, acquire_size, reserved)
    IN IF scan.freed < acquire_size
       THEN [st EXCEPT !.result = "false"]
       ELSE RemoveLoop(st, scan.evicted, 1, failAt)

\* the size acquire asks try_evict to free: self.try_evict(size, &reserved)
EvictTargetShortfall(u, size, cap) == u + size - cap
EvictTarget(u, size, cap) == size

\* if self.using + size > self.capacity
NeedsEvictOverCapacity(u, size, cap) == u > cap
NeedsEvict(u, size, cap) == u + size > cap

\* the branch of acquire for a name that is already resident
AddUserResetSize(res, filename, size) ==
    [res EXCEPT ![filename] = [size |-> size, users |-> @.users + 1]]
AddUser(res, filename, size) ==
    [res EXCEPT ![filename].users = @ + 1]

\* the tail of acquire: insert the new entry and account for its size
Insert(st, filename, size) ==
    [st EXCEPT !.residents =
                  [n \in DOMAIN st.residents \cup {filename} |->
                      IF n = filename THEN [size |-> size, users |-> 1]
                      ELSE st.residents[n]],
               !.using = st.using + size,
               !.result = "true"]

acquire(st0, cap, path, size, reserved, sizes, failAt) ==
    LET st == [st0 EXCEPT !.evicted = <<>>] IN
    IF ~valid_filename(path) THEN [st EXCEPT !.result = "invalid_path"]
    ELSE IF path \in DOMAIN st.residents
    THEN [st EXCEPT !.residents = AddUser(st.residents, path, size), !.result = "true"]
    ELSE IF NeedsEvict(st.using, size, cap)
    THEN LET ev == try_evict(st, EvictTarget(st.using, size, cap), reserved, sizes, failAt)
         IN IF ev.result = "true" THEN Insert(ev, path, size) ELSE ev
    ELSE Insert(st, path, size)

\* if entry.users > 0 { entry.users -= 1; } on a usize: without the test the
\* subtraction at 0 underflows
DropUserUnchecked(users) == users - 1
DropUser(users) == IF users > 0 THEN users - 1 ELSE users

\* release that also forgets an entry nobody uses any more, with its file
release_and_forget(st0, path) ==
    LET st == [st0 EXCEPT !.evicted = <<>>] IN
    IF path \notin DOMAIN st.residents THEN [st EXCEPT !.result = "invalid_path"]
    ELSE IF DropUser(st.residents[path].users) = 0
    THEN [st EXCEPT !.residents = Restrict(st.residents, DOMAIN st.residents \ {path}),
                    !.using = st.using - st.residents[path].size,
                    !.disk = [st.disk EXCEPT ![path] = NoFile],
                    !.result = "ok"]
    ELSE [st EXCEPT !.residents = [st.residents EXCEPT ![path].users = DropUser(@)],
                    !.result = "ok"]
release(st0, path) ==
    LET st == [st0 EXCEPT !.evicted = <<>>] IN
    IF path \notin DOMAIN st.residents THEN [st EXCEPT !.result = "invalid_path"]
    ELSE [st EXCEPT !.residents = [st.residents EXCEPT ![path].users = DropUser(@)],
                    !.result = "ok"]

\* the Storage object and its directory, as one value
StorageState ==
    [residents |-> residents, using |-> using, disk |-> disk,
     result |-> "none", evicted |-> <<>>]

NoCall == [op |-> "none", path |-> "a", size |-> 0, reserved |-> {},
           result |-> "none", evicted |-> <<>>]

(***************************************************************************)
(* src/slideshow.rs, src/lib.rs, src/control.rs: state                     *)
(***************************************************************************)
PlaylistCmd == {"Update", "Refresh"}
PlayerCmd == {"PlayNext", "PlayBack", "Pause", "Resume", "Mute", "Unmute"}

\* Option<Vec<Item>>
None == [set |-> FALSE, items |-> <<>>]
Some(list) == [set |-> TRUE, items |-> list]

\* locals of the main thread while no playlist command is being handled
NoWork == [cmd |-> "none", inStart |-> FALSE, list |-> <<>>, idx |-> 0, paths |-> <<>>]

\* pb while no call of the builder is looked at
NoBuild == [phase |-> "none"]

\* run while no Phoseum::run call is modelled
NoRun == [main |-> "none"]

\* vlc, albumItems, req while no VlcPlayer, no album iterator and no API
\* request is modelled
NoVlc == [op |-> "none"]
NoItems == [pc |-> "none"]
NoReq == [pc |-> "none"]
NoLib == vlc = NoVlc /\ albumItems = NoItems /\ req = NoReq

\* Slideshow::new and the state of Phoseum::run before it calls start()
SlideNew ==
    /\ pb = NoBuild
    /\ run = NoRun
    /\ NoLib
    /\ config = TRUE
    /\ playlist = None
    /\ player = [started |-> FALSE, pausing |-> FALSE, muting |-> FALSE, list |-> <<>>]
    /\ plock = "free"
    /\ mpc = "start"
    /\ work = NoWork
    /\ pre = << >>
    /\ mres = "none"
    /\ ppc = "idle"
    /\ pcmd = "none"
    /\ plq = <<>>
    /\ pq = <<>>
    /\ nsent = [pl |-> 0, player |-> 0]

(***************************************************************************)
(* The cache used through its public interface (as its unit tests do)      *)
(***************************************************************************)
\* directory contents a cache can be opened on: media files left by an
\* earlier run, possibly a leftover download file and a sub-directory
InitialDisks ==
    {d \in [DirEntries -> {NoFile} \cup Sizes] :
        /\ d["a"] \in {NoFile, 1, 2}
        /\ d["b"] \in {NoFile, 2}
        /\ d["c"] = NoFile
        /\ d[TMPFILE_NAME] \in {NoFile, 1}
        /\ d[DirName] \in {NoFile, 0}}

CacheInit ==
    /\ disk \in InitialDisks
    /\ capacity \in Capacities
    /\ using = 0
    /\ residents = << >>
    /\ cstate = "new"
    /\ ret = NoCall
    /\ allOk = TRUE
    /\ ncalls = 0
    /\ SlideNew

\* Storage::open
Open ==
    /\ cstate = "new"
    /\ cstate' = "open"
    /\ residents' = scan_residents(disk)
    /\ using' = SumSizes(scan_residents(disk))
    /\ ret' = [NoCall EXCEPT !.op = "open", !.result = "ok"]
    /\ UNCHANGED <<disk, capacity, allOk, ncalls>>
    /\ UNCHANGED <<slideVars, builderVars, runVars, libVars>>

\* Storage::open when read_dir or a metadata call fails: no Storage exists
OpenFails ==
    /\ cstate = "new"
    /\ cstate' = "open_failed"
    /\ ret' = [NoCall EXCEPT !.op = "open", !.result = "io_error"]
    /\ allOk' = FALSE
    /\ UNCHANGED <<disk, capacity, using, residents, ncalls>>
    /\ UNCHANGED <<slideVars, builderVars, runVars, libVars>>

\* what one acquire call can do: the sort order among equal sizes and the
\* failure of a remove_file are the environment's choice, and only matter
\* on the path that evicts
AcquireOutcomes(st, cap, path, size, reserved) ==
    IF valid_filename(path) /\ path \notin DOMAIN st.residents
       /\ NeedsEvict(st.using, size, cap)
    THEN {acquire(st, cap, path, size, reserved, sizes, failAt) :
             sizes \in SortedOrders(st.residents),
             failAt \in 0..Cardinality(DOMAIN st.residents)}
    ELSE {acquire(st, cap, path, size, reserved, <<>>, 0)}

AcquireCall ==
    /\ cstate = "open"
    /\ ret.op = "none"
    /\ ncalls < MaxCalls
    /\ \E path \in Paths, size \in Sizes, reserved \in SUBSET Names :
          \E r \in AcquireOutcomes(StorageState, capacity, path, size, reserved) :
             /\ residents' = r.residents
             /\ using' = r.using
             /\ disk' = r.disk
             /\ ret' = [op |-> "acquire", path |-> path, size |-> size,
                        reserved |-> reserved, result |-> r.result,
                        evicted |-> r.evicted]
             /\ allOk' = (allOk /\ r.result = "true")
    /\ ncalls' = ncalls + 1
    /\ UNCHANGED <<capacity, cstate>>
    /\ UNCHANGED <<slideVars, builderVars, runVars, libVars>>

ReleaseCall ==
    /\ cstate = "open"
    /\ ret.op = "none"
    /\ ncalls < MaxCalls
    /\ \E path \in Names :
          LET r == release(StorageState, path)
          IN /\ residents' = r.residents
             /\ using' = r.using
             /\ disk' = r.disk
             /\ ret' = [NoCall EXCEPT !.op = "release", !.path = path, !.result = r.result]
             /\ allOk' = (allOk /\ r.result = "ok")
    /\ ncalls' = ncalls + 1
    /\ UNCHANGED <<capacity, cstate>>
    /\ UNCHANGED <<slideVars, builderVars, runVars, libVars>>

\* the caller takes the result of the call and goes on
Return ==
    /\ ret.op # "none"
    /\ cstate # "open_failed"
    /\ ret' = NoCall
    /\ UNCHANGED <<disk, capacity, using, residents, cstate, allOk, ncalls>>
    /\ UNCHANGED <<slideVars, builderVars, runVars, libVars>>

\* the caller of a successful acquire puts the file in place (create_file in
\* the unit tests, the rename in Slideshow::prepare_items)
CreateFile ==
    /\ cstate = "open"
    /\ ret.op = "none"
    /\ \E n \in DOMAIN residents :
          /\ disk[n] = NoFile
          /\ residents[n].users > 0
          /\ disk' = [disk EXCEPT ![n] = residents[n].size]
    /\ UNCHANGED <<capacity, using, residents, cstate, ret, allOk, ncalls>>
    /\ UNCHANGED <<slideVars, builderVars, runVars, libVars>>

CacheNext == Open \/ OpenFails \/ AcquireCall \/ ReleaseCall \/ Return \/ CreateFile

CacheSpec == CacheInit /\ [][CacheNext]_vars

TypeOK ==
    /\ disk \in [DirEntries -> {NoFile} \cup Sizes]
    /\ capacity \in Capacities
    /\ using \in Nat
    /\ DOMAIN residents \subseteq DirEntries
    /\ \A n \in DOMAIN residents : residents[n].size \in Sizes /\ residents[n].users \in Nat
    /\ cstate \in {"new", "open", "open_failed"}
    /\ allOk \in BOOLEAN
    /\ ncalls \in 0..MaxCalls

(***************************************************************************)
(* The album and the playlist builder, as the orchestrator sees them       *)
(***************************************************************************)
\* byte length of the content album.prepare_item downloads for an item
ItemSize(item) == IF item = "a" THEN 1 ELSE 2

\* lists of at most MaxPlaylist album items, no item twice
Lists ==
    UNION {Orderings(S) : S \in {T \in SUBSET Names : Cardinality(T) <= MaxPlaylist}}

\* position of x in the sequence s (0 when absent)
IndexOf(s, x) == IF x \in Range(s) THEN CHOOSE i \in 1..Len(s) : s[i] = x ELSE 0

\* what PlaylistBuilder::build can return for some album contents
BuildOutcomes == Lists

\* what PlaylistBuilder::updated can return as Some(list): the newly arrived
\* items first, then the items of prev still in the album in their former
\* order (PreviousItemSelector::drain), and not equal to prev
UpdatedOutcomes(prev) ==
    {l \in Lists :
        /\ l # prev
        /\ \E k \in 0..Len(l) :
              /\ \A i \in 1..k : l[i] \notin Range(prev)
              /\ \A i \in (k + 1)..Len(l) : l[i] \in Range(prev)
              /\ \A i, j \in (k + 1)..Len(l) :
                    i < j => IndexOf(prev, l[i]) < IndexOf(prev, l[j])}

(***************************************************************************)
(* The player                                                              *)
(***************************************************************************)
\* Player::pausing(), read by the orchestrator under the player lock
pausing(p) == p.pausing

\* control::handle_player_cmd on a player that keeps VlcPlayer's flags
handle_player_cmd(p, cmd) ==
    CASE cmd = "Pause" -> [p EXCEPT !.pausing = TRUE]
      [] cmd = "Resume" -> [p EXCEPT !.pausing = FALSE]
      [] cmd = "Mute" -> [p EXCEPT !.muting = TRUE]
      [] cmd = "Unmute" -> [p EXCEPT !.muting = FALSE]
      [] OTHER -> p

\* Mutex::lock on Slideshow.player returns once no other thread holds it
CanLockUnguarded(thread) == TRUE
CanLock(thread) == plock = "free"

(***************************************************************************)
(* Slideshow and Phoseum::run, main thread                                 *)
(***************************************************************************)
\* start() has returned Ok and run() has spawned its threads
Running == mpc \notin {"start", "exited", "panicked"} /\ ~work.inStart

\* the handler returns Ok(()) / Err(e) to start() or to the consumer loop;
\* the loop logs an error and goes on, start() hands it to run(), which ends
ReturnOk ==
    /\ mres' = "ok"
    /\ work' = NoWork
    /\ pre' = << >>
    /\ mpc' = "idle"

ReturnErrAs(e) ==
    /\ mres' = e
    /\ work' = NoWork
    /\ pre' = << >>
    /\ mpc' = IF work.inStart THEN "exited" ELSE "idle"

ReturnErr == ReturnErrAs("err")

\* pl_builder.build / updated returned Err: the album stream had a fatal
\* error, and the ? operator returns it
BuildFailed == ReturnErrAs("album_err")

\* player.update_playlist(paths)? returned Err
\* (PlayerUpdateFailedExits: the error ends the consumer loop)
PlayerUpdateFailedExits ==
    /\ mres' = "player_err"
    /\ work' = NoWork
    /\ pre' = << >>
    /\ mpc' = "exited"
PlayerUpdateFailed == ReturnErrAs("player_err")

\* what self.config.take() leaves in self.config
TakenPeek(c) == c
Taken(c) == FALSE

\* Slideshow::start, up to its call of refresh_playlist
Start ==
    /\ mpc = "start"
    /\ config
    /\ config' = Taken(config)
    /\ \/ /\ player' = [player EXCEPT !.started = TRUE]
          /\ mpc' = "gate"
          /\ work' = [NoWork EXCEPT !.cmd = "Refresh", !.inStart = TRUE]
          /\ UNCHANGED mres
       \/ /\ mpc' = "exited"
          /\ mres' = "err"
          /\ UNCHANGED <<player, work>>
    /\ UNCHANGED <<storageVars, cacheVars, builderVars, runVars, libVars, playlist, plock, pre, ppc, pcmd, plq, pq, nsent>>

\* Slideshow::start called once more by the owner of the Slideshow, between
\* two playlist commands
StartAgain ==
    /\ mpc = "idle"
    /\ IF config
       THEN /\ config' = Taken(config)
            /\ \/ /\ player' = [player EXCEPT !.started = TRUE]
                  /\ mpc' = "gate"
                  /\ work' = [NoWork EXCEPT !.cmd = "Refresh", !.inStart = TRUE]
                  /\ UNCHANGED <<mres, pre>>
               \/ /\ mpc' = "exited"
                  /\ mres' = "err"
                  /\ UNCHANGED <<player, work, pre>>
       ELSE \* Ok(()) without entering the if: mres tells this return apart
            /\ mres' = "start_ok"
            /\ UNCHANGED <<config, player, mpc, work, pre>>
    /\ UNCHANGED <<storageVars, cacheVars, builderVars, runVars, libVars, playlist, plock, ppc, pcmd, plq, pq, nsent>>

\* Slideshow::start called once more after a start() that returned Err (the
\* player did not start, or the initial refresh failed)
StartRetry ==
    /\ mpc = "exited"
    /\ IF config
       THEN /\ config' = Taken(config)
            /\ \/ /\ player' = [player EXCEPT !.started = TRUE]
                  /\ mpc' = "gate"
                  /\ work' = [NoWork EXCEPT !.cmd = "Refresh", !.inStart = TRUE]
                  /\ UNCHANGED <<mres, pre>>
               \/ /\ mres' = "err"
                  /\ UNCHANGED <<player, mpc, work, pre>>
       ELSE /\ mres' = "start_ok"
            /\ UNCHANGED <<config, player, mpc, work, pre>>
    /\ UNCHANGED <<storageVars, cacheVars, builderVars, runVars, libVars, playlist, plock, ppc, pcmd, plq, pq, nsent>>

\* pl_recv.recv_timeout returned a command: control::handle_playlist_cmd
RecvPlaylistCmd ==
    /\ mpc = "idle"
    /\ plq # <<>>
    /\ work' = [NoWork EXCEPT !.cmd = Head(plq)]
    /\ plq' = Tail(plq)
    /\ mpc' = "gate"
    /\ UNCHANGED <<storageVars, cacheVars, builderVars, runVars, libVars, config, playlist, player, plock, pre, mres,
                   ppc, pcmd, pq, nsent>>

\* if self.player.lock().unwrap().pausing()
GatePausedNever(p) == FALSE
GatePaused(p) == pausing(p)

\* the first pause check of refresh_playlist / update_playlist; the guard
\* of the lock is a temporary of the if condition
\* (PauseGateKeepsLock: the guard lives until the handler returns)
PauseGateKeepsLock ==
    /\ mpc = "gate"
    /\ CanLock("main")
    /\ IF GatePaused(player)
       THEN ReturnOk /\ UNCHANGED plock
       ELSE mpc' = "build" /\ plock' = "main" /\ UNCHANGED <<work, mres, pre>>
    /\ UNCHANGED <<storageVars, cacheVars, builderVars, runVars, libVars, config, playlist, player,
                   ppc, pcmd, plq, pq, nsent>>
PauseGate ==
    /\ mpc = "gate"
    /\ CanLock("main")
    /\ IF GatePaused(player)
       THEN ReturnOk
       ELSE mpc' = "build" /\ UNCHANGED <<work, mres, pre>>
    /\ UNCHANGED <<storageVars, cacheVars, builderVars, runVars, libVars, config, playlist, player, plock,
                   ppc, pcmd, plq, pq, nsent>>

\* replace_playlist is entered with the list the builder returned
EnterReplace(list) ==
    /\ mpc' = "prepare"
    /\ work' = [work EXCEPT !.list = list, !.idx = 1, !.paths = <<>>]
    /\ pre' = residents
    /\ UNCHANGED mres

\* refresh_playlist: pl_builder.build(&self.album)?
\* (BuildRefreshForgets: a failed build leaves no current playlist)
BuildRefreshForgets ==
    /\ mpc = "build"
    /\ work.cmd = "Refresh"
    /\ \/ BuildFailed /\ playlist' = None
       \/ (\E list \in BuildOutcomes : EnterReplace(list)) /\ UNCHANGED playlist
    /\ UNCHANGED <<storageVars, cacheVars, builderVars, runVars, libVars, config, player, plock,
                   ppc, pcmd, plq, pq, nsent>>
BuildRefresh ==
    /\ mpc = "build"
    /\ work.cmd = "Refresh"
    /\ \/ BuildFailed
       \/ \E list \in BuildOutcomes : EnterReplace(list)
    /\ UNCHANGED <<storageVars, cacheVars, builderVars, runVars, libVars, config, playlist, player, plock,
                   ppc, pcmd, plq, pq, nsent>>

\* update_playlist: self.playlist.as_ref().expect("playlist"), then
\* pl_builder.updated(..)?
BuildUpdate ==
    /\ mpc = "build"
    /\ work.cmd = "Update"
    /\ IF ~playlist.set
       THEN /\ mpc' = "panicked"
            /\ mres' = "panic"
            /\ UNCHANGED <<work, pre>>
       ELSE \/ BuildFailed
            \/ ReturnOk
            \/ \E list \in UpdatedOutcomes(playlist.items) : EnterReplace(list)
    /\ UNCHANGED <<storageVars, cacheVars, builderVars, runVars, libVars, config, playlist, player, plock,
                   ppc, pcmd, plq, pq, nsent>>

\* prepare_items when acquire returned false: warn!, continue
\* (AfterFalsePushes: the path is pushed all the same)
AfterFalsePushes(w, item) == [w EXCEPT !.idx = @ + 1, !.paths = Append(@, item)]
AfterFalse(w, item) == [w EXCEPT !.idx = @ + 1]

\* one iteration of the loop of prepare_items
PrepareItem ==
    /\ mpc = "prepare"
    /\ work.idx <= Len(work.list)
    /\ LET item == work.list[work.idx]
           reserved_paths == Range(work.list)
           exists == disk[item] # NoFile
           size == IF exists THEN disk[item] ELSE ItemSize(item)
           downloaded == IF exists THEN disk
                         ELSE [disk EXCEPT ![TMPFILE_NAME] = ItemSize(item)]
           pushed == [work EXCEPT !.idx = @ + 1, !.paths = Append(@, item)]
       IN \/ \* album.prepare_item or fs::metadata fails
             /\ ReturnErr
             /\ UNCHANGED <<disk, using, residents>>
          \/ \E r \in AcquireOutcomes([StorageState EXCEPT !.disk = downloaded],
                                      capacity, item, size, reserved_paths) :
                /\ using' = r.using
                /\ residents' = r.residents
                /\ CASE r.result = "true" /\ r.disk[item] # NoFile ->
                          /\ disk' = r.disk
                          /\ work' = pushed
                          /\ UNCHANGED <<mpc, mres, pre>>
                     [] r.result = "true" /\ r.disk[item] = NoFile ->
                          \/ \* fs::rename(&tmpfile, &path)
                             /\ r.disk[TMPFILE_NAME] # NoFile
                             /\ disk' = [r.disk EXCEPT ![item] = r.disk[TMPFILE_NAME],
                                                       ![TMPFILE_NAME] = NoFile]
                             /\ work' = pushed
                             /\ UNCHANGED <<mpc, mres, pre>>
                          \/ \* the rename fails
                             /\ disk' = r.disk
                             /\ ReturnErr
                     [] r.result = "false" ->
                          /\ disk' = r.disk
                          /\ work' = AfterFalse(work, item)
                          /\ UNCHANGED <<mpc, mres, pre>>
                     [] OTHER ->
                          /\ disk' = r.disk
                          /\ ReturnErr
    /\ UNCHANGED <<capacity, cacheVars, builderVars, runVars, libVars, config, playlist, player, plock,
                   ppc, pcmd, plq, pq, nsent>>

\* paths.is_empty()
is_empty_never(paths) == FALSE
is_empty(paths) == paths = <<>>

\* prepare_items returned: if paths.is_empty()
PrepareDone ==
    /\ mpc = "prepare"
    /\ work.idx > Len(work.list)
    /\ IF is_empty(work.paths)
       THEN ReturnOk
       ELSE mpc' = "rp_lock" /\ UNCHANGED <<work, mres, pre>>
    /\ UNCHANGED <<storageVars, cacheVars, builderVars, runVars, libVars, config, playlist, player, plock,
                   ppc, pcmd, plq, pq, nsent>>

\* replace_playlist: let mut player = self.player.lock().unwrap()
ReplaceLock ==
    /\ mpc = "rp_lock"
    /\ CanLock("main")
    /\ plock' = "main"
    /\ mpc' = "rp_check"
    /\ UNCHANGED <<storageVars, cacheVars, builderVars, runVars, libVars, config, playlist, player, work, pre, mres,
                   ppc, pcmd, plq, pq, nsent>>

\* replace_playlist: if player.pausing() { return Ok(()) }
ReplaceCheck ==
    /\ mpc = "rp_check"
    /\ IF pausing(player)
       THEN ReturnOk /\ plock' = "free"
       ELSE mpc' = "rp_update" /\ UNCHANGED <<work, mres, plock, pre>>
    /\ UNCHANGED <<storageVars, cacheVars, builderVars, runVars, libVars, config, playlist, player,
                   ppc, pcmd, plq, pq, nsent>>

\* the loop that releases the items of the old playlist; a failed release is
\* logged (ReleaseAllUntilError: the loop left at the first failed release)
RECURSIVE ReleaseAllUntilError(_, _, _)
ReleaseAllUntilError(st, items, i) ==
    IF i > Len(items) THEN st
    ELSE IF release(st, items[i]).result # "ok" THEN st
    ELSE ReleaseAllUntilError(release(st, items[i]), items, i + 1)
RECURSIVE ReleaseAll(_, _, _)
ReleaseAll(st, items, i) ==
    IF i > Len(items) THEN st
    ELSE ReleaseAll(release(st, items[i]), items, i + 1)

\* replace_playlist: player.update_playlist(paths)?, then the swap of
\* self.playlist and the release of the old items; the lock guard is dropped
\* on return
\* (ReplaceUpdateSwapFirst: self.playlist replaced before the player update)
ReplaceUpdateSwapFirst ==
    /\ mpc = "rp_update"
    /\ plock' = "free"
    /\ playlist' = Some(work.list)
    /\ \/ /\ PlayerUpdateFailed
          /\ UNCHANGED <<player, residents>>
       \/ /\ player' = [player EXCEPT !.list = work.paths]
          /\ residents' = ReleaseAll(StorageState, playlist.items, 1).residents
          /\ ReturnOk
    /\ UNCHANGED <<disk, capacity, using, cacheVars, builderVars, runVars, libVars, config,
                   ppc, pcmd, plq, pq, nsent>>
ReplaceUpdate ==
    /\ mpc = "rp_update"
    /\ plock' = "free"
    /\ \/ /\ PlayerUpdateFailed
          /\ UNCHANGED <<player, playlist, residents>>
       \/ /\ player' = [player EXCEPT !.list = work.paths]
          /\ playlist' = Some(work.list)
          /\ residents' = ReleaseAll(StorageState, playlist.items, 1).residents
          /\ ReturnOk
    /\ UNCHANGED <<disk, capacity, using, cacheVars, builderVars, runVars, libVars, config,
                   ppc, pcmd, plq, pq, nsent>>

(***************************************************************************)
(* Phoseum::run, player consumer thread and the commanders                 *)
(***************************************************************************)
\* player_recv.recv_timeout returned a command
RecvPlayerCmd ==
    /\ Running
    /\ ppc = "idle"
    /\ pq # <<>>
    /\ pcmd' = Head(pq)
    /\ pq' = Tail(pq)
    /\ ppc' = "lock"
    /\ UNCHANGED <<storageVars, cacheVars, builderVars, runVars, libVars, config, playlist, player, plock, mpc, work,
                   pre, mres, plq, nsent>>

\* player.lock().expect("lock player")
PlayerLock ==
    /\ Running
    /\ ppc = "lock"
    /\ CanLock("player")
    /\ plock' = "player"
    /\ ppc' = "handle"
    /\ UNCHANGED <<storageVars, cacheVars, builderVars, runVars, libVars, config, playlist, player, mpc, work,
                   pre, mres, pcmd, plq, pq, nsent>>

\* control::handle_player_cmd under the lock; an error is logged
HandlePlayerCmd ==
    /\ Running
    /\ ppc = "handle"
    /\ \/ player' = handle_player_cmd(player, pcmd)
       \/ UNCHANGED player
    /\ plock' = "free"
    /\ ppc' = "idle"
    /\ pcmd' = "none"
    /\ UNCHANGED <<storageVars, cacheVars, builderVars, runVars, libVars, config, playlist, mpc, work,
                   pre, mres, plq, pq, nsent>>

\* a playlist commander sends a command
SendPlaylistCmd ==
    /\ Running
    /\ nsent.pl < MaxPlaylistCmds
    /\ \E c \in PlaylistCmd : plq' = Append(plq, c)
    /\ nsent' = [nsent EXCEPT !.pl = @ + 1]
    /\ UNCHANGED <<storageVars, cacheVars, builderVars, runVars, libVars, config, playlist, player, plock, mpc, work,
                   pre, mres, ppc, pcmd, pq>>

\* the commands the player commander of the model sends (HttpCommander:
\* pause and resume)
CommanderCmds == {"Pause", "Resume"}

\* a player commander sends a command
SendPlayerCmd ==
    /\ Running
    /\ nsent.player < MaxPlayerCmds
    /\ \E c \in CommanderCmds : pq' = Append(pq, c)
    /\ nsent' = [nsent EXCEPT !.player = @ + 1]
    /\ UNCHANGED <<storageVars, cacheVars, builderVars, runVars, libVars, config, playlist, player, plock, mpc, work,
                   pre, mres, ppc, pcmd, plq>>

\* directories the program is started on
StartDisks ==
    {d \in InitialDisks :
        d[DirName] = NoFile /\ d["b"] = NoFile /\ d["a"] = ItemSize("a")}

\* bin/phoseum: Storage::open, Slideshow::new, Phoseum::new
Init ==
    /\ disk \in StartDisks
    /\ capacity = MaxCapacity
    /\ residents = scan_residents(disk)
    /\ using = SumSizes(scan_residents(disk))
    /\ cstate = "open"
    /\ ret = NoCall
    /\ allOk = TRUE
    /\ ncalls = 0
    /\ SlideNew

Next ==
    \/ Start
    \/ RecvPlaylistCmd
    \/ PauseGate
    \/ BuildRefresh
    \/ BuildUpdate
    \/ PrepareItem
    \/ PrepareDone
    \/ ReplaceLock
    \/ ReplaceCheck
    \/ ReplaceUpdate
    \/ RecvPlayerCmd
    \/ PlayerLock
    \/ HandlePlayerCmd
    \/ SendPlaylistCmd
    \/ SendPlayerCmd

Spec == Init /\ [][Next]_vars

\* the Slideshow driven as Phoseum::run drives it, by an owner that may also
\* call start() again
SlideNext == Next \/ StartAgain \/ StartRetry

SlideSpec == Init /\ [][SlideNext]_vars

(***************************************************************************)
(* src/playlist.rs: PlaylistBuilder and its selectors                      *)
(***************************************************************************)
\* An album item is its id; pb.time[id] is its created_time. A sequence of
\* Option<I> holds "none" for None.
Times == 1..MaxTime
SizesOfList == 0..MaxPlaylist

created_time(b, item) == b.time[item]

\* FreshItemSelector::take; .passed tells that the item came back as Some
IsFresh(b, item) == created_time(b, item) >= MinFreshTime

Fresh_take(b, item) ==
    IF IsFresh(b, item)
    THEN [b EXCEPT !.fresh = Append(@, item), !.passed = FALSE]
    ELSE [b EXCEPT !.passed = TRUE]

\* RandomSlots::push with capacity max_items, p the drawn gen_range(0, count)
\* (RandomSlots_push_unbounded: the item is pushed whatever slots.len() is)
RandomSlots_push_unbounded(b, item, p) ==
    [b EXCEPT !.count = @ + 1, !.slots = Append(@, item), !.passed = FALSE]
RandomSlots_push(b, item, p) ==
    LET c == [b EXCEPT !.count = @ + 1] IN
    IF Len(c.slots) < c.max_items
    THEN [c EXCEPT !.slots = Append(@, item), !.passed = FALSE]
    ELSE IF p >= c.max_items
    THEN [c EXCEPT !.passed = TRUE]
    ELSE [c EXCEPT !.slots[p + 1] = item, !.passed = FALSE]

\* RandomSlots::pick_random from the drawn start: index of the slot taken
\* (1-based), 0 when it returns None
RECURSIVE ScanSlot(_, _, _)
ScanSlot(slots, i, start) ==
    IF slots[i] # "none" THEN i
    ELSE LET j == (i % Len(slots)) + 1
         IN IF j = start THEN 0 ELSE ScanSlot(slots, j, start)

pick_random(slots, start) == IF Len(slots) = 0 THEN 0 ELSE ScanSlot(slots, start, start)

\* OldItemSelector::drain: what k calls of pick_random can yield in a row
RECURSIVE OldDrains(_, _)
OldDrains(slots, k) ==
    IF k = 0 \/ Len(slots) = 0 THEN {<<>>}
    ELSE UNION {LET i == pick_random(slots, start)
                IN IF i = 0 THEN {<<>>}
                   ELSE {<<slots[i]>> \o rest :
                            rest \in OldDrains([slots EXCEPT ![i] = "none"], k - 1)} :
                start \in 1..Len(slots)}

\* FreshItemSelector::drain: sort_unstable_by_key(Reverse(created_time)), the
\* order among items of equal created_time being arbitrary
SortsAscending(b, s) ==
    \A i, j \in 1..Len(s) : i < j => created_time(b, s[i]) <= created_time(b, s[j])
SortsDescending(b, s) ==
    \A i, j \in 1..Len(s) : i < j => created_time(b, s[i]) >= created_time(b, s[j])

FreshDrains(b) == {s \in Orderings(Range(b.fresh)) : SortsDescending(b, s)}

\* the Some entries of a sequence of Option<I>, in order
RECURSIVE FilterSome(_)
FilterSome(s) ==
    IF s = <<>> THEN <<>>
    ELSE IF Head(s) = "none" THEN FilterSome(Tail(s))
    ELSE <<Head(s)>> \o FilterSome(Tail(s))

\* PreviousItemSelector::new: newest_time (0 is UNIX_EPOCH)
RECURSIVE NewestTime(_, _)
NewestTime(b, prev) ==
    IF prev = <<>> THEN 0
    ELSE LET t == NewestTime(b, Tail(prev))
         IN IF created_time(b, Head(prev)) > t THEN created_time(b, Head(prev)) ELSE t

\* PreviousItemSelector::take (Previous_take_unfiltered: a newer item is
\* pushed to the embedded fresh selector's items without its freshness test)
Previous_take_unfiltered(b, item) ==
    IF item \in Range(b.prev)
    THEN [b EXCEPT !.prev_items[IndexOf(b.prev, item)] = item, !.passed = FALSE]
    ELSE IF /\ created_time(b, item) > NewestTime(b, b.prev)
            /\ Len(b.prev_items) + Len(b.fresh) < b.max_size
    THEN [b EXCEPT !.fresh = Append(@, item), !.passed = FALSE]
    ELSE [b EXCEPT !.passed = TRUE]
Previous_take(b, item) ==
    IF item \in Range(b.prev)
    THEN [b EXCEPT !.prev_items[IndexOf(b.prev, item)] = item, !.passed = FALSE]
    ELSE IF /\ created_time(b, item) > NewestTime(b, b.prev)
            /\ Len(b.prev_items) + Len(b.fresh) < b.max_size
    THEN Fresh_take(b, item)
    ELSE [b EXCEPT !.passed = TRUE]

\* Selectors::consume for the pipeline of build and for that of updated
\* (consume_all: the item is offered to every selector, retained or not)
consume_all(b, item, p) ==
    IF b.mode = "build"
    THEN RandomSlots_push(Fresh_take(b, item), item, p)
    ELSE Previous_take(b, item)
consume(b, item, p) ==
    IF b.mode = "build"
    THEN LET f == Fresh_take(b, item)
         IN IF f.passed THEN RandomSlots_push(f, item, p) ELSE f
    ELSE Previous_take(b, item)

\* Selectors::locked_count
locked_count(b) ==
    IF b.mode = "build" THEN Len(b.fresh)
    ELSE Len(FilterSome(b.prev_items)) + Len(b.fresh)

\* the inner loop of Selectors::select over what one selector drains;
\* .outer tells that it left by break 'outer
StopsAtMinOrUnlocked(n, min_count, locked) == n >= min_count \/ locked = 0
StopsAtMinNever(n, min_count, locked) == FALSE
StopsAtMin(n, min_count, locked) == n >= min_count /\ locked = 0

RECURSIVE TakeFrom(_, _, _, _, _, _)
TakeFrom(items, drained, j, locked, min_count, max_count) ==
    IF j > Len(drained) THEN [items |-> items, outer |-> FALSE]
    ELSE IF Len(items) >= max_count THEN [items |-> items, outer |-> TRUE]
    ELSE IF StopsAtMin(Len(items), min_count, locked)
    THEN [items |-> items, outer |-> FALSE]
    ELSE TakeFrom(Append(items, drained[j]), drained, j + 1,
                  IF locked > 0 THEN locked - 1 ELSE locked, min_count, max_count)

\* PreviousItemSelector::drain: fresh_selector.drain().chain(prev_items)
PreviousDrainPrevFirst(fd, prev_some) == prev_some \o fd
PreviousDrain(fd, prev_some) == fd \o prev_some

\* Selectors::select: the lists it can return
select(b, min_count, max_count) ==
    IF b.mode = "build"
    THEN {LET f == TakeFrom(<<>>, fd, 1, Len(b.fresh), min_count, max_count)
          IN IF f.outer THEN f.items
             ELSE TakeFrom(f.items, od, 1, 0, min_count, max_count).items :
             fd \in FreshDrains(b), od \in OldDrains(b.slots, b.max_items)}
    ELSE {TakeFrom(<<>>, PreviousDrain(fd, FilterSome(b.prev_items)), 1,
                   locked_count(b), min_count, max_count).items :
             fd \in FreshDrains(b)}

\* do_build: if selectors.locked_count() == self.max_size { break; }
LoopBreaksNever(b) == FALSE
LoopBreaks(b) == locked_count(b) = b.max_size

\* the selectors as build and updated construct them
NewBuild(mode, min_size, max_size, time, prev) ==
    [phase |-> "loop", mode |-> mode, min_size |-> min_size, max_size |-> max_size,
     time |-> time, prev |-> prev,
     fresh |-> <<>>,
     max_items |-> min_size, slots |-> <<>>, count |-> 0,
     prev_items |-> [i \in 1..Len(prev) |-> "none"],
     seen |-> {}, skipped |-> FALSE, passed |-> FALSE,
     result |-> <<>>, changed |-> FALSE,
     stream |-> <<>>, replay |-> <<>>, rerun |-> FALSE, more |-> FALSE]

\* previous playlists handed to updated: lists of distinct items
PrevLists == Lists

\* a call of build or of updated on some album, with some configuration
BuildInit ==
    /\ \E mode \in {"build", "updated"}, min_size \in SizesOfList, max_size \in SizesOfList,
          time \in [Names -> Times], prev \in PrevLists :
          /\ mode = "build" => prev = <<>>
          /\ pb = NewBuild(mode, min_size, max_size, time, prev)
    /\ run = NoRun
    /\ NoLib
    /\ disk = [n \in DirEntries |-> NoFile]
    /\ capacity = MaxCapacity
    /\ using = 0
    /\ residents = << >>
    /\ cstate = "new"
    /\ ret = NoCall
    /\ allOk = TRUE
    /\ ncalls = 0
    /\ config = TRUE
    /\ playlist = None
    /\ player = [started |-> FALSE, pausing |-> FALSE, muting |-> FALSE, list |-> <<>>]
    /\ plock = "free"
    /\ mpc = "start"
    /\ work = NoWork
    /\ pre = << >>
    /\ mres = "none"
    /\ ppc = "idle"
    /\ pcmd = "none"
    /\ plq = <<>>
    /\ pq = <<>>
    /\ nsent = [pl |-> 0, player |-> 0]

builderFrame == UNCHANGED <<storageVars, cacheVars, slideVars, runVars, libVars>>

\* the items the album iterator can yield next: any item not yielded yet;
\* when the call is the second one on an unchanged album, the items of the
\* first call in their order, and further ones only if the first call had
\* left the loop before the end of the album
NextItems(b) ==
    IF b.replay # <<>> THEN {Head(b.replay)}
    ELSE IF b.rerun /\ ~b.more THEN {}
    ELSE Names \ b.seen

\* do_build: the album iterator yields Ok(item), which the selectors consume
AlbumYield ==
    /\ pb.phase = "loop"
    /\ ~LoopBreaks(pb)
    /\ \E item \in NextItems(pb), p \in 0..pb.count :
          pb' = [consume(pb, item, p) EXCEPT
                    !.seen = @ \cup {item},
                    !.stream = Append(@, item),
                    !.replay = IF @ = <<>> THEN @ ELSE Tail(@)]
    /\ builderFrame

\* do_build: the album iterator yields an error that is not fatal
\* (AlbumSkipAborts: the error ends the call as a fatal one does)
AlbumSkipAborts ==
    /\ pb.phase = "loop"
    /\ ~LoopBreaks(pb)
    /\ pb' = [pb EXCEPT !.phase = "failed", !.skipped = TRUE]
    /\ builderFrame
AlbumSkip ==
    /\ pb.phase = "loop"
    /\ ~LoopBreaks(pb)
    /\ pb' = [pb EXCEPT !.skipped = TRUE]
    /\ builderFrame

\* do_build: the album iterator yields a fatal error
AlbumFatal ==
    /\ pb.phase = "loop"
    /\ ~LoopBreaks(pb)
    /\ pb' = [pb EXCEPT !.phase = "failed"]
    /\ builderFrame

\* do_build: the loop ends (the album is exhausted, or locked_count equals
\* max_size) and select runs; updated then compares with the previous list
BuildSelect ==
    /\ pb.phase = "loop"
    /\ pb.rerun => (pb.replay = <<>> \/ LoopBreaks(pb))
    /\ \E r \in select(pb, pb.min_size, pb.max_size) :
          pb' = [pb EXCEPT !.phase = "done", !.result = r,
                           !.changed = (pb.mode = "updated" /\ r # pb.prev)]
    /\ builderFrame

\* build has returned a list, and updated is called with that list on the
\* same album, unchanged, at the same time
Rerun ==
    /\ pb.phase = "done"
    /\ pb.mode = "build"
    /\ pb' = [NewBuild("updated", pb.min_size, pb.max_size, pb.time, pb.result) EXCEPT
                 !.replay = pb.stream, !.rerun = TRUE, !.more = LoopBreaks(pb)]
    /\ builderFrame

BuildNext == AlbumYield \/ AlbumSkip \/ AlbumFatal \/ BuildSelect \/ Rerun

BuildSpec == BuildInit /\ [][BuildNext]_vars

(***************************************************************************)
(* Properties of the cache                                                 *)
(***************************************************************************)
Max(x, y) == IF x >= y THEN x ELSE y

\* the step is an acquire call that has just returned
AcquireReturned == ret.op = "none" /\ ret'.op = "acquire"

\* entries try_evict may take for the call recorded in r, in residents res
EligibleSet(res, reserved) ==
    {n \in DOMAIN res : res[n].users = 0 /\ n \notin reserved}

\* the entries the step removed from residents, and the files it deleted
Removed == DOMAIN residents \ DOMAIN residents'
Deleted == {n \in DirEntries : disk[n] # NoFile /\ disk'[n] = NoFile}

\* C1 as stated: after open and calls that all returned success, the last of
\* them an acquire that returned true, using is at most capacity, whatever
\* the directory held at open.
C1_UsingWithinCapacity ==
    (cstate = "open" /\ allOk /\ ret.op = "acquire" /\ ret.result = "true")
        => using <= capacity

\* C1 amended: no acquire or release raises using above the larger of
\* capacity and the previous using; so using <= capacity, once true, is kept
\* by every call, and using never exceeds max(capacity, using at open).
C1_UsingNeverGrowsPastCapacity ==
    [][cstate = "open" => using' <= Max(capacity, using)]_vars

\* C1 witness: an acquire that had to evict returned true and filled the
\* cache exactly up to its capacity.
C1_Witness ==
    /\ ret.op = "acquire" /\ ret.result = "true" /\ ret.evicted # <<>>
    /\ using = capacity

\* C2: using equals the sum of the sizes of the residents in every state:
\* after open, after every acquire (true, false or failed part-way through
\* its eviction) and after every release.
C2_UsingIsSumOfSizes == using = SumSizes(residents)

\* C2 witness: an eviction unlinked at least one file and then failed with
\* an I/O error.
C2_Witness ==
    /\ ret.op = "acquire" /\ ret.result = "io_error" /\ Len(ret.evicted) >= 1
    /\ using > 0

\* C3, first half: an acquire removes from residents, and deletes the file
\* of, only entries with users = 0 that are not in its reserved set.
C3_OnlyEligibleEvicted ==
    AcquireReturned =>
        (Removed \cup Deleted) \subseteq EligibleSet(residents, ret'.reserved)

\* the acquire of the step had to evict and found no eligible entry
NoCandidate ==
    /\ AcquireReturned
    /\ valid_filename(ret'.path)
    /\ ret'.path \notin DOMAIN residents
    /\ using + ret'.size > capacity
    /\ EligibleSet(residents, ret'.reserved) = {}

\* C3 as stated: in-use and reserved entries are never evicted, and an
\* acquire that needs space while every resident is in use or reserved
\* returns false.
C3_NoEvictionOfUsedOrReserved ==
    [][C3_OnlyEligibleEvicted /\ (NoCandidate => ret'.result = "false")]_vars

\* C3 amended: in-use and reserved entries are never evicted, and an acquire
\* of a positive size that needs space while every resident is in use or
\* reserved returns false.
C3_NoEvictionOfUsedOrReservedPositive ==
    [][C3_OnlyEligibleEvicted
       /\ ((NoCandidate /\ ret'.size > 0) => ret'.result = "false")]_vars

\* C3 witness: an acquire evicted an entry while a reserved entry with no
\* user, no larger than the evicted one, stayed resident with its file.
C3_Witness ==
    /\ ret.op = "acquire" /\ ret.result = "true" /\ ret.evicted # <<>>
    /\ \E n \in ret.reserved :
          /\ n \in DOMAIN residents /\ n # ret.path
          /\ residents[n].users = 0
          /\ disk[n] # NoFile
          /\ residents[n].size <= ret.size

\* C7 as stated: the download file's name is never a key of residents.
C7_TmpNeverResident == TMPFILE_NAME \notin DOMAIN residents

\* the acquire of the step names a valid path that is already resident
AcquireOfResident ==
    /\ AcquireReturned
    /\ valid_filename(ret'.path)
    /\ ret'.path \in DOMAIN residents

\* C8: acquire of a resident name returns true, adds exactly one user to that
\* entry and changes nothing else (size, using, other entries, disk),
\* whatever size is passed and however full the cache is.
C8_AcquireResident ==
    [][AcquireOfResident =>
        /\ ret'.result = "true"
        /\ residents' = [residents EXCEPT ![ret'.path].users = @ + 1]
        /\ using' = using
        /\ disk' = disk]_vars

\* C8 witness: a name acquired for the second time, with a size that differs
\* from the entry's and does not fit into the free capacity.
C8_Witness ==
    /\ ret.op = "acquire" /\ ret.result = "true"
    /\ ret.path \in DOMAIN residents
    /\ residents[ret.path].users >= 2
    /\ residents[ret.path].size # ret.size
    /\ using + ret.size > capacity

\* C9: an acquire that returns false leaves residents (users included),
\* using and the disk as they were.
C9_FalseHasNoEffect ==
    [][(AcquireReturned /\ ret'.result = "false") =>
        /\ residents' = residents
        /\ using' = using
        /\ disk' = disk]_vars

\* C9 witness: acquire returned false although some eligible entry with a
\* file on disk was there to evict (too small to free the requested size).
C9_Witness ==
    /\ ret.op = "acquire" /\ ret.result = "false"
    /\ \E n \in EligibleSet(residents, ret.reserved) :
          disk[n] # NoFile /\ residents[n].size > 0

\* the step is an acquire that evicted at least one entry
AcquireEvicted == AcquireReturned /\ Removed # {}

\* no eligible entry is removed while a strictly smaller eligible one stays
SmallestFirst ==
    \A e \in Removed :
        \A k \in EligibleSet(residents, ret'.reserved) \ Removed :
            residents[e].size <= residents[k].size

RemovedSize == SumOver([n \in Removed |-> residents[n].size], Removed)

\* the removed entries without their last (largest) one free too little
StopsAtOnce ==
    \A e \in Removed :
        (\A o \in Removed : residents[o].size <= residents[e].size)
            => RemovedSize - residents[e].size < ret'.size

\* C10 as stated: the evicted entries are the shortest prefix, by ascending
\* size, of the eligible entries whose sizes add up to the requested size.
C10_ShortestPrefix ==
    [][AcquireEvicted =>
        /\ Removed \subseteq EligibleSet(residents, ret'.reserved)
        /\ SmallestFirst
        /\ (ret'.result = "true" => RemovedSize >= ret'.size /\ StopsAtOnce)]_vars

\* C10 amended: the evicted entries are the shortest non-empty prefix, by
\* ascending size, of the eligible entries whose sizes add up to the
\* requested size (the scan tests freed >= requested only after it has
\* taken an entry, so a request of size 0 that needs space evicts one).
C10_ShortestNonEmptyPrefix ==
    [][AcquireEvicted =>
        /\ Removed \subseteq EligibleSet(residents, ret'.reserved)
        /\ SmallestFirst
        /\ (ret'.result = "true" =>
              /\ RemovedSize >= ret'.size
              /\ (Cardinality(Removed) >= 2 => StopsAtOnce))]_vars

\* C10 witness: an acquire evicted two entries and kept a third eligible
\* one, which has a file on disk.
C10_Witness ==
    /\ ret.op = "acquire" /\ ret.result = "true" /\ Len(ret.evicted) = 2
    /\ \E n \in EligibleSet(residents, ret.reserved) : disk[n] # NoFile

\* the step is a release call that has just returned
ReleaseReturned == ret.op = "none" /\ ret'.op = "release"

\* users of a name, 0 for a name that is not resident
UsersOf(res, n) == IF n \in DOMAIN res THEN res[n].users ELSE 0

\* C11: acquire and release count users up and down one by one and release
\* stops at 0. Every successful acquire(n) makes users of n one more than it
\* was (1 for a new entry); every release(n) of a resident n returns Ok and
\* makes users of n one less, or leaves 0 at 0, and users is never negative;
\* so k acquires followed by k releases end at users = 0 and further
\* releases change nothing. A release of a name that is not resident returns
\* InvalidPath and changes nothing.
C11_ReleaseBalancesAcquire ==
    [][/\ (AcquireReturned /\ ret'.result = "true") =>
             UsersOf(residents', ret'.path) = UsersOf(residents, ret'.path) + 1
       /\ (ReleaseReturned /\ ret'.path \in DOMAIN residents) =>
             /\ ret'.result = "ok"
             /\ ret'.path \in DOMAIN residents'
             /\ residents'[ret'.path].users >= 0
             /\ residents'[ret'.path].users =
                    Max(residents[ret'.path].users - 1, 0)
       /\ (ReleaseReturned /\ ret'.path \notin DOMAIN residents) =>
             /\ ret'.result = "invalid_path"
             /\ residents' = residents /\ using' = using /\ disk' = disk]_vars

\* C11 witness: three calls that all succeeded, the last of them a release
\* of an entry created by an acquire (its file is not on disk yet) whose
\* users count is 0 afterwards: acquire, release, and one release more.
C11_Witness ==
    /\ ncalls = 3 /\ allOk
    /\ ret.op = "release" /\ ret.result = "ok"
    /\ residents[ret.path].users = 0
    /\ disk[ret.path] = NoFile
    /\ \A n \in DOMAIN residents : n # ret.path => disk[n] # NoFile

\* C12: release deletes no file and changes neither the key set of residents,
\* nor any size, nor using; an entry leaves residents, and its file the
\* disk, only in an acquire that needs space (using + size > capacity).
C12_ReleaseKeepsFiles ==
    [][/\ ReleaseReturned =>
             /\ disk' = disk
             /\ using' = using
             /\ DOMAIN residents' = DOMAIN residents
             /\ \A n \in DOMAIN residents : residents'[n].size = residents[n].size
       /\ (Removed \cup Deleted) # {} =>
             /\ AcquireReturned
             /\ using + ret'.size > capacity]_vars

\* C12 witness: a release took the last user from an entry whose file is on
\* disk; the entry is still resident and its size still counted in using.
C12_Witness ==
    /\ ret.op = "release" /\ ret.result = "ok"
    /\ residents[ret.path].users = 0
    /\ disk[ret.path] = residents[ret.path].size
    /\ residents[ret.path].size > 0
    /\ using >= residents[ret.path].size
    /\ ncalls >= 2

(***************************************************************************)
(* Properties of the orchestrator                                          *)
(***************************************************************************)
\* the main thread takes the step that calls player.update_playlist
UpdateInvoked == mpc = "rp_update" /\ mpc' # "rp_update"

\* the second pause check of replace_playlist finds the player paused and
\* replace_playlist returns
PausedAtSecondCheck == mpc = "rp_check" /\ pausing(player) /\ mpc' # "rp_check"

\* C4: player.update_playlist is never invoked while the player is paused,
\* whatever the player consumer thread does meanwhile; when the second check
\* finds the player paused, replace_playlist returns Ok to the consumer loop
\* with the player's playlist untouched.
C4_NoUpdateWhilePaused ==
    [][/\ UpdateInvoked => ~pausing(player)
       /\ PausedAtSecondCheck =>
            /\ mpc' = "idle"
            /\ mres' = "ok"
            /\ player'.list = player.list]_vars

\* C4 witness: the main thread holds the player lock at the second check
\* with paths prepared and finds the player paused, by a Pause that was
\* dispatched after the first check had found it playing.
C4_Witness ==
    /\ mpc = "rp_check" /\ plock = "main" /\ work.paths # <<>>
    /\ pausing(player)
    /\ ~work.inStart

\* C5 as stated: when replace_playlist returns at the second pause check,
\* the player's playlist and current_playlist are unchanged and the cache is
\* as it was when replace_playlist was entered: same residents, same users.
C5_PausedAbortLeavesCacheUnchanged ==
    [][PausedAtSecondCheck =>
        /\ player'.list = player.list
        /\ playlist' = playlist
        /\ DOMAIN residents' = DOMAIN pre
        /\ \A n \in DOMAIN pre : residents'[n].users = pre[n].users]_vars

\* C6 as stated: once start() returned Ok, no Update or Refresh command
\* aborts the playlist consumer loop.
C6_ConsumerLoopNeverAborts == mpc # "panicked"

\* the first pause check of refresh_playlist / update_playlist finds the
\* player paused
PausedAtGate == mpc = "gate" /\ pausing(player) /\ mpc' # "gate"

\* C13: when refresh_playlist or update_playlist finds the player paused at
\* its entry, it returns Ok at once: the builder is not run, nothing is
\* downloaded, and disk, residents, using, current_playlist and the player
\* are as they were.
C13_PausedGateDoesNothing ==
    [][PausedAtGate =>
        /\ mpc' = "idle" /\ mres' = "ok"
        /\ disk' = disk /\ residents' = residents /\ using' = using
        /\ playlist' = playlist
        /\ player' = player]_vars

\* C13 witness: an Update command reaches its first pause check with the
\* player paused and a playlist in place.
C13_Witness ==
    /\ mpc = "gate" /\ work.cmd = "Update" /\ pausing(player)
    /\ playlist.set /\ plock = "free"

\* prepare_items has returned an empty list of paths and replace_playlist
\* takes its next step
EmptyPrepared ==
    mpc = "prepare" /\ work.idx > Len(work.list) /\ work.paths = <<>> /\ mpc' # "prepare"

\* C14: when prepare_items yields no path, replace_playlist returns Ok with
\* the player and current_playlist untouched, nothing released, and
\* residents (users included) and using as they were when replace_playlist
\* was entered.
C14_EmptyPathsNoMutation ==
    [][EmptyPrepared =>
        /\ mpc' = "idle" /\ mres' = "ok"
        /\ player' = player
        /\ playlist' = playlist
        /\ residents' = pre
        /\ using' = SumSizes(pre) /\ using' = using]_vars

\* C14 witness: a non-empty list was prepared, every acquire returned false,
\* and a playlist whose items are in use is in place.
C14_Witness ==
    /\ mpc = "prepare" /\ work.idx > Len(work.list) /\ work.paths = <<>>
    /\ work.list # <<>>
    /\ playlist.set
    /\ \E n \in Range(playlist.items) : n \in DOMAIN residents /\ residents[n].users > 0

\* number of positions of the sequence items that hold n
Count(items, n) == Cardinality({i \in 1..Len(items) : items[i] = n})

\* C15: when replace_playlist has updated the player, current_playlist is
\* the new list and every item of the prior list has been released exactly
\* once (one user less, not below 0, for those resident; the others only
\* logged), replace_playlist returning Ok whatever the releases returned;
\* when the player update fails nothing has been released and
\* current_playlist is the prior list.
C15_ReleasePriorItems ==
    [][UpdateInvoked =>
        IF mres' = "ok"
        THEN /\ playlist' = Some(work.list)
             /\ player'.list = work.paths
             /\ DOMAIN residents' = DOMAIN residents
             /\ \A n \in DOMAIN residents :
                   /\ residents'[n].size = residents[n].size
                   /\ residents'[n].users =
                         Max(residents[n].users - Count(playlist.items, n), 0)
             /\ using' = using /\ disk' = disk
        ELSE /\ playlist' = playlist
             /\ residents' = residents
             /\ player' = player]_vars

\* C15 witness: after a replace_playlist that returned Ok, an item that only
\* a former playlist brought in is resident with no user left and is not in
\* current_playlist.
C15_Witness ==
    /\ mpc = "idle" /\ mres = "ok" /\ playlist.set
    /\ \E n \in {"b", "c"} :
          /\ n \in DOMAIN residents
          /\ residents[n].users = 0
          /\ n \notin Range(playlist.items)

\* C16: current_playlist, once set, stays set, and it is assigned only by
\* the step of replace_playlist in which player.update_playlist succeeded
\* with a non-empty list of paths.
C16_PlaylistOnlyForward ==
    [][/\ playlist.set => playlist'.set
       /\ playlist' # playlist =>
             /\ UpdateInvoked
             /\ work.paths # <<>>
             /\ mres' = "ok"
             /\ player'.list = work.paths
             /\ playlist' = Some(work.list)]_vars

\* C16 witness: a playlist command failed after current_playlist had been
\* set, and current_playlist is still set.
C16_Witness ==
    /\ playlist.set /\ mres = "err" /\ mpc = "idle"
    /\ nsent.pl >= 1 /\ plq = <<>>

\* C17: a start() called after start() has returned Ok returns Ok and
\* changes nothing: the player is not started again and no refresh runs.
C17_StartIdempotent ==
    [][StartAgain =>
        /\ mpc' = "idle" /\ mres' = "start_ok"
        /\ config' = config
        /\ player' = player
        /\ playlist' = playlist
        /\ disk' = disk /\ residents' = residents /\ using' = using
        /\ work' = work]_vars

\* C17 witness: start() was called again and returned Ok after a playlist
\* command had been handled; the player is started, the configuration is
\* gone and the playlist is in place.
C17_Witness ==
    /\ mpc = "idle" /\ mres = "start_ok" /\ ~config /\ player.started
    /\ nsent.pl >= 1 /\ plq = <<>>
    /\ playlist.set /\ player.list # <<>>

(***************************************************************************)
(* Properties of the playlist builder                                      *)
(***************************************************************************)
Min(x, y) == IF x <= y THEN x ELSE y

\* build or updated has returned Ok
Built(mode) == pb.phase = "done" /\ pb.mode = mode

\* C18: for min_size <= max_size, the list build returns, and the list
\* updated computes from a previous playlist of at most max_size items, has
\* at most max_size items; and build returns at least min(min_size, n)
\* items when the album yielded n items without error.
C18_LengthBounds ==
    (pb.phase = "done" /\ pb.min_size <= pb.max_size /\ Len(pb.prev) <= pb.max_size) =>
        /\ Len(pb.result) <= pb.max_size
        /\ Built("build") =>
              /\ Len(pb.result) >= Min(pb.min_size, Cardinality(pb.seen))
              /\ Len(pb.fresh) = pb.max_size => Len(pb.result) >= pb.min_size

\* C18 witness: build consumed three items and skipped an error, and
\* returned exactly min_size items, fewer than it consumed and fewer than
\* max_size, an old one among them.
C18_Witness ==
    /\ Built("build") /\ pb.skipped
    /\ Cardinality(pb.seen) = 3
    /\ pb.min_size < pb.max_size
    /\ Len(pb.result) = pb.min_size
    /\ \E i \in 1..Len(pb.result) : ~IsFresh(pb, pb.result[i])

\* positions of the result that hold a fresh item / an old item
FreshAt == {i \in 1..Len(pb.result) : IsFresh(pb, pb.result[i])}
OldAt == {i \in 1..Len(pb.result) : ~IsFresh(pb, pb.result[i])}

\* number of old items the album yielded to build
OldCount == Cardinality({n \in pb.seen : ~IsFresh(pb, n)})

FreshBeforeOld == \A i \in FreshAt, j \in OldAt : i < j

\* C19 as stated: in build's result fresh items precede old ones, there is
\* no old item when at least min_size fresh items were selected, and
\* otherwise exactly min(min_size - fresh_count, old_count) old items,
\* whatever the configuration.
C19_OldItemsFillToMin ==
    Built("build") =>
        /\ FreshBeforeOld
        /\ IF Cardinality(FreshAt) >= pb.min_size
           THEN OldAt = {}
           ELSE Cardinality(OldAt) =
                   Min(pb.min_size - Cardinality(FreshAt), OldCount)

\* C19 amended: as stated when min_size <= max_size; in general the old
\* items are also capped by the room left up to max_size: the result holds
\* exactly min(min_size - fresh_count, max_size - fresh_count, old_count)
\* old items when fewer than min_size fresh items were selected.
C19_OldItemsFillToMinWithinMax ==
    Built("build") =>
        /\ FreshBeforeOld
        /\ IF Cardinality(FreshAt) >= pb.min_size
           THEN OldAt = {}
           ELSE Cardinality(OldAt) =
                   Min(Min(pb.min_size - Cardinality(FreshAt),
                           pb.max_size - Cardinality(FreshAt)), OldCount)

\* C19 witness: with min_size <= max_size, build returned a fresh item
\* followed by old items that fill the list up to min_size, fewer than the
\* old items the album yielded, and the old items came before the fresh one
\* in the album.
C19_Witness ==
    /\ Built("build") /\ pb.min_size <= pb.max_size
    /\ FreshAt # {} /\ OldAt # {}
    /\ Len(pb.result) = pb.min_size
    /\ Cardinality(OldAt) < OldCount
    /\ pb.count = OldCount
    /\ ~IsFresh(pb, pb.slots[1])

\* C20 as stated: created_time strictly decreases from each fresh item of
\* build's result to the next one.
C20_FreshStrictlyDescending ==
    Built("build") =>
        \A i, j \in FreshAt :
            i < j => created_time(pb, pb.result[i]) > created_time(pb, pb.result[j])

\* C20 amended: created_time never increases from a fresh item of build's
\* result to the next one (fresh items of equal created_time follow each
\* other in either order).
C20_FreshDescending ==
    Built("build") =>
        \A i, j \in FreshAt :
            i < j => created_time(pb, pb.result[i]) >= created_time(pb, pb.result[j])

\* C20 witness: build returned two fresh items newest first that the album
\* had yielded oldest first.
C20_Witness ==
    /\ Built("build") /\ Len(pb.fresh) = 2 /\ Len(pb.result) >= 2
    /\ created_time(pb, pb.fresh[1]) < created_time(pb, pb.fresh[2])
    /\ pb.result[1] = pb.fresh[2] /\ pb.result[2] = pb.fresh[1]

\* C21: once build holds max_size fresh items it consumes nothing more from
\* the album, and what it returns is exactly these items, the first
\* max_size fresh ones of the stream, newest first; a fresh item further
\* down the stream is not selected, however new.
C21_StopsAtMaxFresh ==
    [][(pb.phase = "loop" /\ pb.mode = "build" /\ Len(pb.fresh) = pb.max_size) =>
        /\ pb'.seen = pb.seen
        /\ pb'.fresh = pb.fresh
        /\ pb'.phase = "done" =>
              /\ Len(pb'.result) = pb.max_size
              /\ Range(pb'.result) = Range(pb.fresh)
              /\ \A i, j \in 1..Len(pb'.result) :
                    i < j => created_time(pb, pb'.result[i]) >= created_time(pb, pb'.result[j])]_vars

\* C21 witness: build returned max_size fresh items while an item the album
\* had not yielded yet is fresh and newer than every item returned.
C21_Witness ==
    /\ Built("build") /\ pb.max_size >= 1 /\ Len(pb.fresh) = pb.max_size
    /\ Len(pb.result) = pb.max_size
    /\ \E z \in Names \ pb.seen :
          /\ IsFresh(pb, z)
          /\ \A i \in 1..Len(pb.result) :
                created_time(pb, z) > created_time(pb, pb.result[i])

\* the items of prev the album yielded, in their order in prev
RECURSIVE KeptOf(_, _)
KeptOf(prev, S) ==
    IF prev = <<>> THEN <<>>
    ELSE IF Head(prev) \in S THEN <<Head(prev)>> \o KeptOf(Tail(prev), S)
    ELSE KeptOf(Tail(prev), S)

PrevKept == KeptOf(pb.prev, pb.seen)

\* items the album yielded that are not in prev, newer than every item of
\* prev and fresh
NewlyArrived ==
    {n \in pb.seen \ Range(pb.prev) :
        created_time(pb, n) > NewestTime(pb, pb.prev) /\ IsFresh(pb, n)}

\* s holds newly arrived items, newest first
NewestFirst(s) ==
    /\ Range(s) \subseteq NewlyArrived
    /\ \A i, j \in 1..Len(s) : i < j => created_time(pb, s[i]) >= created_time(pb, s[j])

UpdatedWithin == Built("updated") /\ Len(pb.prev) <= pb.max_size

\* C22 as stated: the list updated computes is the kept items of prev in
\* their former order followed by newly arrived fresh items, newest first.
C22_KeptThenNew ==
    UpdatedWithin =>
        /\ Len(pb.result) >= Len(PrevKept)
        /\ SubSeq(pb.result, 1, Len(PrevKept)) = PrevKept
        /\ NewestFirst(SubSeq(pb.result, Len(PrevKept) + 1, Len(pb.result)))

\* C22 amended: the list updated computes is the newly arrived fresh items
\* it took (those met while Len(prev) plus their number was below max_size),
\* newest first, followed by the kept items of prev in their former order.
C22_NewThenKept ==
    UpdatedWithin =>
        /\ Len(pb.result) >= Len(PrevKept)
        /\ SubSeq(pb.result, Len(pb.result) - Len(PrevKept) + 1, Len(pb.result)) = PrevKept
        /\ NewestFirst(SubSeq(pb.result, 1, Len(pb.result) - Len(PrevKept)))
        /\ Len(pb.result) - Len(PrevKept) = Len(pb.fresh)
        /\ Len(pb.prev) + Len(pb.fresh) <= pb.max_size

\* C22 witness: updated returned a newly arrived item followed by an item
\* kept from prev, having passed over an item that is neither.
C22_Witness ==
    /\ UpdatedWithin /\ pb.changed /\ ~pb.rerun
    /\ Len(pb.result) = 2
    /\ pb.result[1] \in NewlyArrived
    /\ pb.result[2] \in Range(pb.prev)
    /\ Cardinality(pb.seen) = 3

\* C23: updated returns None exactly when the list it computed equals prev;
\* called with a list build returned, on the same album at the same time, it
\* computes that list again and returns None.
C23_UnchangedAlbumGivesNone ==
    (pb.phase = "done" /\ pb.mode = "updated") =>
        /\ pb.changed <=> pb.result # pb.prev
        /\ pb.rerun => (pb.result = pb.prev /\ ~pb.changed)

\* C23 witness: build returned a fresh and an old item from an album of
\* three, and updated on the same album returned None.
C23_Witness ==
    /\ pb.phase = "done" /\ pb.mode = "updated" /\ pb.rerun /\ ~pb.changed
    /\ Len(pb.prev) = 2 /\ pb.replay = <<>> /\ Len(pb.stream) = 3
    /\ IsFresh(pb, pb.prev[1]) /\ ~IsFresh(pb, pb.prev[2])

\* C24: an error of the album that is not fatal changes nothing in the
\* builder but the record that an element was skipped: the loop goes on
\* with the selectors as they were, so what build or updated returns is
\* what it can return on the stream without the failing elements.
C24_NonFatalSkipped ==
    [][(pb.phase = "loop" /\ ~pb.skipped /\ pb'.skipped) =>
          pb' = [pb EXCEPT !.skipped = TRUE]]_vars

\* C24 witness: updated skipped a failing element and returned a list that
\* differs from prev by an item the album yielded.
C24_Witness ==
    /\ Built("updated") /\ pb.skipped /\ pb.changed
    /\ pb.fresh # <<>> /\ FilterSome(pb.prev_items) # <<>>

\* the builder called by refresh_playlist / update_playlist returns the
\* fatal error of the album
BuildAborted == mpc = "build" /\ mpc' \notin {"build", "prepare"} /\ mres' = "album_err"

\* C25: when the builder fails on a fatal error of the album,
\* refresh_playlist / update_playlist return the error (to the consumer
\* loop, which goes on, or to start) with current_playlist, the cache (disk,
\* residents with their users, using) and the player as they were.
C25_FatalAlbumErrorKeepsState ==
    [][BuildAborted =>
        /\ mpc' = (IF work.inStart THEN "exited" ELSE "idle")
        /\ playlist' = playlist
        /\ disk' = disk /\ residents' = residents /\ using' = using
        /\ player' = player]_vars

\* C25 witness: an Update command ended on a fatal album error while a
\* playlist whose items are in use is in place and played.
C25_Witness ==
    /\ mres = "album_err" /\ mpc = "idle"
    /\ playlist.set /\ player.list # <<>>
    /\ \E n \in Range(playlist.items) : n \in DOMAIN residents /\ residents[n].users > 0

\* the player consumer thread has handled its command, with or without
\* error
PlayerCmdHandled == ppc = "handle" /\ ppc' # "handle"

\* C26: a failure of player.update_playlist in a playlist command returns
\* to the consumer loop, which goes on, with current_playlist as it was and
\* nothing released; the player consumer thread goes back to receiving
\* after every command, failed or not, and frees the player lock.
C26_PlayerErrorDropsCommand ==
    [][/\ (UpdateInvoked /\ mres' = "player_err" /\ ~work.inStart) =>
             /\ mpc' = "idle"
             /\ playlist' = playlist
             /\ residents' = residents
             /\ plock' = "free"
       /\ PlayerCmdHandled =>
             /\ ppc' = "idle" /\ plock' = "free"
             /\ mpc' = mpc /\ playlist' = playlist /\ residents' = residents]_vars

\* C26 witness: a playlist command ended on a failed player update, the
\* prior playlist is in place with an item in use, and the player consumer
\* thread is serving a command.
C26_Witness ==
    /\ mres = "player_err" /\ mpc = "idle"
    /\ playlist.set
    /\ \E n \in Range(playlist.items) : n \in DOMAIN residents /\ residents[n].users > 0
    /\ ppc = "handle"

\* C30: the main thread holds the player lock only from the lock taken in
\* replace_playlist to its return (second pause check, update of the
\* player); while it builds the playlist or prepares items the lock is
\* free for the player consumer thread.
C30_LockFreeWhilePreparing ==
    /\ plock = "main" => mpc \in {"rp_check", "rp_update"}
    /\ mpc \in {"build", "prepare", "rp_lock"} => plock \in {"free", "player"}

\* C30 witness: the first pause check found the player playing, and while
\* items are being prepared the player is paused: a Pause command was
\* dispatched to the player in between.
C30_Witness ==
    /\ mpc = "prepare" /\ work.idx > 1
    /\ pausing(player) /\ ppc = "idle" /\ plock = "free"

(***************************************************************************)
(* Phoseum::run: its threads, its two channels and the terminate flag      *)
(* (src/lib.rs); the handlers are taken by what they return                *)
(***************************************************************************)
\* commands a commander sends during one run, per class
MaxRunCmds == 2

\* the commanders of the repository: GpioCommander, ConsoleCommander and
\* HttpCommander for player commands, HttpCommander for playlist commands
PlayerCommanders == {"gpio", "console", "http"}
PlaylistCommanders == {"http_pl"}
Commanders == PlayerCommanders \cup PlaylistCommanders
Classes == {"pl", "player"}
ClassOf(c) == IF c \in PlaylistCommanders THEN "pl" ELSE "player"

\* Commander::run_and_forget
run_and_forget(c) == c # "gpio"

\* run() of the commander loops on the terminate flag (GpioCommander)
ObservesTerminate(c) == c = "gpio"

\* run() of the commander returns when its input ends (ConsoleCommander)
ReturnsOnEof(c) == c = "console"

\* the command the commander of the model sends (run() does not look at it)
CommandsOf(c) ==
    CASE c = "gpio" -> {"PlayNext"}
      [] c = "console" -> {"Mute"}
      [] c = "http" -> {"Pause"}
      [] OTHER -> {"Update"}

NoCmd == [cmd |-> "none", by |-> "none", n |-> 0]

\* if !forget { threads.push(th) }
\* (JoinableAll: every commander thread is pushed)
JoinableAll(c) == TRUE
Joinable(c) == ~run_and_forget(c)

\* mpsc::Sender::send and Receiver::recv_timeout returning Ok(cmd)
\* (recv_newest: the command sent last is received first)
send(q, c) == Append(q, c)
recv_newest(q) == [cmd |-> q[Len(q)], rest |-> SubSeq(q, 1, Len(q) - 1)]
recv(q) == [cmd |-> Head(q), rest |-> Tail(q)]

\* the senders of a channel still alive: player_send / pl_send, locals of
\* run() that live until it returns, and the clone each running commander
\* of the class holds
Senders(r, k) ==
    (IF r.main # "returned" THEN {"run"} ELSE {})
        \cup {c \in r.present : ClassOf(c) = k /\ r.cth[c] = "running"}

\* the receiver of the channel is alive: player_recv belongs to the player
\* consumer thread, pl_recv to run()
ReceiverAlive(r, k) ==
    IF k = "player" THEN r.pth # "returned" ELSE r.main # "returned"

\* a Phoseum with some commanders added, and run() called
RunInit ==
    /\ \E present \in SUBSET Commanders :
          run = [present |-> present, terminate |-> FALSE,
                 main |-> "start", cur |-> NoCmd,
                 pth |-> "none", pcur |-> NoCmd,
                 lock |-> "free",
                 cth |-> [c \in Commanders |-> "none"],
                 threads |-> {},
                 q |-> [k \in Classes |-> <<>>],
                 arrived |-> [k \in Classes |-> <<>>],
                 recvd |-> [k \in Classes |-> <<>>],
                 handled |-> [k \in Classes |-> 0]]
    /\ pb = NoBuild
    /\ NoLib
    /\ disk = [n \in DirEntries |-> NoFile]
    /\ capacity = MaxCapacity
    /\ using = 0
    /\ residents = << >>
    /\ cstate = "new"
    /\ ret = NoCall
    /\ allOk = TRUE
    /\ ncalls = 0
    /\ config = TRUE
    /\ playlist = None
    /\ player = [started |-> FALSE, pausing |-> FALSE, muting |-> FALSE, list |-> <<>>]
    /\ plock = "free"
    /\ mpc = "start"
    /\ work = NoWork
    /\ pre = << >>
    /\ mres = "none"
    /\ ppc = "idle"
    /\ pcmd = "none"
    /\ plq = <<>>
    /\ pq = <<>>
    /\ nsent = [pl |-> 0, player |-> 0]

runFrame == UNCHANGED <<storageVars, cacheVars, slideVars, builderVars, libVars>>

\* self.slideshow.start()?, then the spawning of the commander threads and
\* of the player consumer thread
RunStart ==
    /\ run.main = "start"
    /\ \/ run' = [run EXCEPT !.main = "returned"]
       \/ run' = [run EXCEPT
                     !.main = "loop",
                     !.pth = "loop",
                     !.cth = [c \in Commanders |->
                                 IF c \in run.present THEN "running" ELSE "none"],
                     !.threads = {c \in run.present : Joinable(c)} \cup {"player_consumer"}]
    /\ runFrame

\* the owner of the flag stores true in terminate
RunTerminate ==
    /\ run.main # "returned"
    /\ ~run.terminate
    /\ run' = [run EXCEPT !.terminate = TRUE]
    /\ runFrame

\* a commander sends a command; ConsoleCommander returns when send fails
RunCommanderSend(c) ==
    /\ run.cth[c] = "running"
    /\ LET k == ClassOf(c)
       IN IF ReceiverAlive(run, k)
          THEN /\ Len(run.arrived[k]) < MaxRunCmds
               /\ \E name \in CommandsOf(c) :
                     LET cmd == [cmd |-> name, by |-> c, n |-> Len(run.arrived[k]) + 1]
                     IN run' = [run EXCEPT !.q[k] = send(@, cmd),
                                           !.arrived[k] = Append(@, cmd)]
          ELSE /\ ReturnsOnEof(c)
               /\ run' = [run EXCEPT !.cth[c] = "returned"]
    /\ runFrame

\* run() of a commander returns, and its sender is dropped: GpioCommander
\* when it reads terminate, ConsoleCommander at the end of its input
RunCommanderReturn(c) ==
    /\ run.cth[c] = "running"
    /\ (ObservesTerminate(c) /\ run.terminate) \/ ReturnsOnEof(c)
    /\ run' = [run EXCEPT !.cth[c] = "returned"]
    /\ runFrame

\* one turn of the main loop: while !terminate { match pl_recv.recv_timeout }
RunMainLoop ==
    /\ run.main = "loop"
    /\ IF run.terminate
       THEN run' = [run EXCEPT !.main = "join"]
       ELSE IF run.q["pl"] # <<>>
       THEN run' = [run EXCEPT !.main = "handling",
                               !.cur = recv(run.q["pl"]).cmd,
                               !.q["pl"] = recv(run.q["pl"]).rest,
                               !.recvd["pl"] = Append(@, recv(run.q["pl"]).cmd)]
       ELSE IF Senders(run, "pl") = {}
       THEN run' = [run EXCEPT !.main = "join"]
       ELSE UNCHANGED run
    /\ runFrame

\* handle_playlist_cmd: replace_playlist locks the player
RunLockPlayer ==
    /\ run.main = "handling"
    /\ run.lock = "free"
    /\ run' = [run EXCEPT !.main = "updating", !.lock = "main"]
    /\ runFrame

\* handle_playlist_cmd returns Ok or Err (logged); the guard is dropped
RunHandled ==
    /\ run.main \in {"handling", "updating"}
    /\ run' = [run EXCEPT !.main = "loop", !.cur = NoCmd,
                          !.lock = IF run.main = "updating" THEN "free" ELSE @,
                          !.handled["pl"] = @ + 1]
    /\ runFrame

\* for th in threads { th.join() }
RunJoin ==
    /\ run.main = "join"
    /\ "player_consumer" \in run.threads => run.pth = "returned"
    /\ \A c \in run.threads \cap Commanders : run.cth[c] = "returned"
    /\ run' = [run EXCEPT !.main = "returned"]
    /\ runFrame

\* one turn of the loop of the player consumer thread
RunPlayerLoop ==
    /\ run.pth = "loop"
    /\ IF run.terminate
       THEN run' = [run EXCEPT !.pth = "returned"]
       ELSE IF run.q["player"] # <<>>
       THEN run' = [run EXCEPT !.pth = "recvd",
                               !.pcur = recv(run.q["player"]).cmd,
                               !.q["player"] = recv(run.q["player"]).rest,
                               !.recvd["player"] = Append(@, recv(run.q["player"]).cmd)]
       ELSE IF Senders(run, "player") = {}
       THEN run' = [run EXCEPT !.pth = "returned"]
       ELSE UNCHANGED run
    /\ runFrame

\* player.lock().expect("lock player")
RunPlayerLock ==
    /\ run.pth = "recvd"
    /\ run.lock = "free"
    /\ run' = [run EXCEPT !.pth = "handling", !.lock = "player"]
    /\ runFrame

\* handle_player_cmd returns Ok or Err (logged); the guard is dropped
RunPlayerHandled ==
    /\ run.pth = "handling"
    /\ run' = [run EXCEPT !.pth = "loop", !.pcur = NoCmd, !.lock = "free",
                          !.handled["player"] = @ + 1]
    /\ runFrame

RunCommanders ==
    \E c \in Commanders : RunCommanderSend(c) \/ RunCommanderReturn(c)

RunNext ==
    \/ RunStart
    \/ RunTerminate
    \/ RunCommanders
    \/ RunMainLoop
    \/ RunLockPlayer
    \/ RunHandled
    \/ RunJoin
    \/ RunPlayerLoop
    \/ RunPlayerLock
    \/ RunPlayerHandled

RunSpec == RunInit /\ [][RunNext]_vars

\* the threads run() joins keep running while they can take a step
\* (the scheduler is fair to a runnable thread, a handler returns, a
\* GpioCommander polls the flag every POLL_INTERVAL); nothing is assumed of
\* the detached commanders, of the senders of commands or of the owner of
\* the flag
RunFairness ==
    /\ WF_vars(RunStart)
    /\ WF_vars(RunMainLoop)
    /\ WF_vars(RunHandled)
    /\ WF_vars(RunJoin)
    /\ WF_vars(RunPlayerLoop)
    /\ WF_vars(RunPlayerLock)
    /\ WF_vars(RunPlayerHandled)
    /\ WF_vars(\E c \in Commanders : ObservesTerminate(c) /\ RunCommanderReturn(c))

FairRunSpec == RunSpec /\ RunFairness

\* s is the beginning of t
IsPrefix(s, t) == Len(s) <= Len(t) /\ SubSeq(t, 1, Len(s)) = s

\* a command of the class has been received and its handler has not returned
InHand(k) ==
    IF k = "pl" THEN run.main \in {"handling", "updating"}
    ELSE run.pth \in {"recvd", "handling"}

\* C27: each consumer receives the commands of its class in the order they
\* arrived in its channel, and has at most one command in hand: every
\* command received before has been handled; a consumer at its loop with a
\* command in its channel can receive it whatever the other consumer does.
C27_FifoOneAtATime ==
    /\ \A k \in Classes :
          /\ IsPrefix(run.recvd[k], run.arrived[k])
          /\ run.arrived[k] = run.recvd[k] \o run.q[k]
          /\ Len(run.recvd[k]) - run.handled[k] = (IF InHand(k) THEN 1 ELSE 0)
    /\ (run.main = "loop" /\ ~run.terminate /\ run.q["pl"] # <<>>) =>
          ENABLED <<RunMainLoop>>_vars
    /\ (run.pth = "loop" /\ ~run.terminate /\ run.q["player"] # <<>>) =>
          ENABLED <<RunPlayerLoop>>_vars

\* C27 witness: the main thread handles the first playlist command while
\* the second waits, and the player consumer thread handles a command of
\* one commander while a later one of another commander waits.
C27_Witness ==
    /\ run.main = "handling" /\ run.pth = "handling"
    /\ Len(run.q["pl"]) = 1 /\ run.cur.n = 1
    /\ Len(run.q["player"]) = 1 /\ run.pcur.n = 1
    /\ run.pcur.by # run.q["player"][1].by

\* every thread run() pushed to its list of threads to join has returned
JoinedAll ==
    /\ run.pth = "returned"
    /\ \A c \in run.present : ~run_and_forget(c) => run.cth[c] = "returned"

ProducersGone(k) ==
    /\ run.pth # "none"
    /\ \E c \in run.present : ClassOf(c) = k
    /\ \A c \in run.present : ClassOf(c) = k => run.cth[c] = "returned"

\* the consumer loop of the class has ended
ConsumerEnded(k) ==
    IF k = "pl" THEN run.main \in {"join", "returned"} ELSE run.pth = "returned"

\* C29 as stated: when every commander of a class has returned, the
\* consumer loop of the class ends, terminate being set or not.
C29_ProducersGoneEndsLoop ==
    \A k \in Classes :
        (ProducersGone(k) /\ ~run.terminate) ~> (ConsumerEnded(k) \/ run.terminate)

(***************************************************************************)
(* src/player_vlc.rs: the pausing and sleeping flags of VlcPlayer          *)
(***************************************************************************)
\* calls made on one VlcPlayer
MaxVlcCalls == 4

\* the other components, unused while a library component is exercised alone
LibIdle ==
    /\ disk = [n \in DirEntries |-> NoFile]
    /\ capacity = MaxCapacity
    /\ using = 0
    /\ residents = << >>
    /\ cstate = "new"
    /\ ret = NoCall
    /\ allOk = TRUE
    /\ ncalls = 0
    /\ config = TRUE
    /\ playlist = None
    /\ player = [started |-> FALSE, pausing |-> FALSE, muting |-> FALSE, list |-> <<>>]
    /\ plock = "free"
    /\ mpc = "start"
    /\ work = NoWork
    /\ pre = << >>
    /\ mres = "none"
    /\ ppc = "idle"
    /\ pcmd = "none"
    /\ plq = <<>>
    /\ pq = <<>>
    /\ nsent = [pl |-> 0, player |-> 0]
    /\ pb = NoBuild
    /\ run = NoRun

libFrame == UNCHANGED <<storageVars, cacheVars, slideVars, builderVars, runVars>>

\* VlcPlayer::new_with_client
VlcInit ==
    /\ vlc = [op |-> "new", cmd |-> "none", result |-> "ok",
              pausing |-> FALSE, sleeping |-> FALSE,
              sent |-> <<>>, ncalls |-> 0]
    /\ albumItems = NoItems
    /\ req = NoReq
    /\ LibIdle

\* maybe_pause: if !self.pausing && !self.sleeping
PauseSends(v) == ~v.pausing /\ ~v.sleeping

\* maybe_resume: if (self.pausing && resume) || (self.sleeping && !self.pausing)
\* (ResumeSendsAnyCaller: the resume argument is not looked at)
ResumeSendsAnyCaller(v, resume) == v.pausing \/ v.sleeping
ResumeSends(v, resume) == (v.pausing /\ resume) \/ (v.sleeping /\ ~v.pausing)

\* what send_status_cmd can return
SendResults == {"ok", "err"}

\* the record of a call: its name, the command it sent, what it returned
Called(v, op, cmd, result) ==
    [v EXCEPT !.op = op, !.cmd = cmd, !.result = result,
              !.sent = IF cmd = "none" THEN @ ELSE Append(@, cmd),
              !.ncalls = @ + 1]

\* pause() and sleep(): self.maybe_pause()?, then the flag is set
PauseOrSleep(v, op, r) ==
    LET set == IF op = "pause" THEN [v EXCEPT !.pausing = TRUE]
               ELSE [v EXCEPT !.sleeping = TRUE]
    IN IF PauseSends(v)
       THEN IF r = "ok" THEN Called(set, op, "pl_pause", "ok")
            ELSE Called(v, op, "pl_pause", "err")
       ELSE Called(set, op, "none", "ok")

\* resume() and wakeup(): self.maybe_resume(resume)?
ResumeOrWakeup(v, op, r) ==
    IF ResumeSends(v, op = "resume")
    THEN IF r = "ok"
         THEN Called([v EXCEPT !.pausing = FALSE, !.sleeping = FALSE], op, "pl_play", "ok")
         ELSE Called(v, op, "pl_play", "err")
    ELSE Called(v, op, "none", "ok")

VlcPauseCall ==
    /\ vlc.op # "none" /\ vlc.ncalls < MaxVlcCalls
    /\ \E r \in SendResults : vlc' = PauseOrSleep(vlc, "pause", r)
    /\ UNCHANGED <<albumItems, req>> /\ libFrame

VlcSleepCall ==
    /\ vlc.op # "none" /\ vlc.ncalls < MaxVlcCalls
    /\ \E r \in SendResults : vlc' = PauseOrSleep(vlc, "sleep", r)
    /\ UNCHANGED <<albumItems, req>> /\ libFrame

VlcResumeCall ==
    /\ vlc.op # "none" /\ vlc.ncalls < MaxVlcCalls
    /\ \E r \in SendResults : vlc' = ResumeOrWakeup(vlc, "resume", r)
    /\ UNCHANGED <<albumItems, req>> /\ libFrame

VlcWakeupCall ==
    /\ vlc.op # "none" /\ vlc.ncalls < MaxVlcCalls
    /\ \E r \in SendResults : vlc' = ResumeOrWakeup(vlc, "wakeup", r)
    /\ UNCHANGED <<albumItems, req>> /\ libFrame

VlcNext == VlcPauseCall \/ VlcSleepCall \/ VlcResumeCall \/ VlcWakeupCall

VlcSpec == VlcInit /\ [][VlcNext]_vars

\* C31: pause() and sleep() send pl_pause exactly when the player is neither
\* pausing nor sleeping; resume() sends pl_play exactly when it is pausing
\* or sleeping, and then clears both flags; wakeup() sends pl_play exactly
\* when it is sleeping and not pausing, so a pausing player stays pausing;
\* no call sends anything else.
C31_PauseResumeCommands ==
    [][vlc' # vlc =>
        LET op == vlc'.op
            cmd == vlc'.cmd
        IN /\ op \in {"pause", "sleep"} =>
                 /\ cmd = (IF ~vlc.pausing /\ ~vlc.sleeping THEN "pl_pause" ELSE "none")
                 /\ vlc'.result = "ok" =>
                       /\ vlc'.pausing = (vlc.pausing \/ op = "pause")
                       /\ vlc'.sleeping = (vlc.sleeping \/ op = "sleep")
           /\ op = "resume" =>
                 /\ cmd = (IF vlc.pausing \/ vlc.sleeping THEN "pl_play" ELSE "none")
                 /\ vlc'.result = "ok" => ~vlc'.pausing /\ ~vlc'.sleeping
           /\ op = "wakeup" =>
                 /\ cmd = (IF vlc.sleeping /\ ~vlc.pausing THEN "pl_play" ELSE "none")
                 /\ vlc.pausing => vlc'.pausing
           /\ vlc'.sent = (IF cmd = "none" THEN vlc.sent ELSE Append(vlc.sent, cmd))]_vars

\* C31 witness: the player was paused, then put to sleep, and a wakeup()
\* sent nothing: one pl_pause is all VLC received and the player is still
\* pausing.
C31_Witness ==
    /\ vlc.op = "wakeup" /\ vlc.cmd = "none" /\ vlc.result = "ok"
    /\ vlc.pausing /\ vlc.sleeping
    /\ vlc.sent = <<"pl_pause">> /\ vlc.ncalls = 3

\* s is t with some elements left out, the others in the order of t
RECURSIVE IsSubSeq(_, _)
IsSubSeq(s, t) ==
    IF s = <<>> THEN TRUE
    ELSE IF t = <<>> THEN FALSE
    ELSE IF Head(s) = Head(t) THEN IsSubSeq(Tail(s), Tail(t))
    ELSE IsSubSeq(s, Tail(t))

\* prepare_items goes from one item of the list to the next
PreparedOne ==
    mpc = "prepare" /\ work.idx <= Len(work.list) /\ mpc' = "prepare" /\ work' # work

\* the acquire of the step returned true: the item is resident with one
\* user more than before
AcquiredNow(item) ==
    /\ item \in DOMAIN residents'
    /\ residents'[item].users =
          (IF item \in DOMAIN residents THEN residents[item].users + 1 ELSE 1)

\* C32: prepare_items pushes the path of an item exactly when its acquire
\* returned true and goes on with the next item when it returned false
\* (nothing acquired, nothing pushed); the paths are at every moment the
\* items acquired so far, in the order of the list, and this list of paths
\* is what replace_playlist hands to player.update_playlist.
C32_PathsAreAcquiredItems ==
    [][/\ PreparedOne =>
             LET item == work.list[work.idx]
             IN /\ work'.idx = work.idx + 1 /\ work'.list = work.list
                /\ work'.paths = (IF AcquiredNow(item) THEN Append(work.paths, item)
                                  ELSE work.paths)
                /\ ~AcquiredNow(item) => residents' = residents /\ item \notin DOMAIN residents
       /\ mpc = "prepare" => IsSubSeq(work.paths, SubSeq(work.list, 1, work.idx - 1))
       /\ (UpdateInvoked /\ mres' = "ok") => player'.list = work.paths]_vars

\* C32 witness: the player was handed the second item of a list of two,
\* the acquire of the first having returned false.
C32_Witness ==
    /\ mpc = "idle" /\ mres = "ok" /\ playlist.set
    /\ Len(playlist.items) = 2
    /\ player.list = <<playlist.items[2]>>
    /\ playlist.items[1] \notin DOMAIN residents

\* total size of the entries try_evict may take
EligibleTotal(res, reserved) ==
    SumOver([n \in EligibleSet(res, reserved) |-> res[n].size], EligibleSet(res, reserved))

\* the step is an acquire, for a valid name that is not resident, that
\* returned
AcquireNewReturned ==
    /\ AcquireReturned
    /\ valid_filename(ret'.path)
    /\ ret'.path \notin DOMAIN residents

\* the new entry is in residents with one user and its size is accounted for
InsertedOnce ==
    /\ ret'.path \in DOMAIN residents'
    /\ residents'[ret'.path] = [size |-> ret'.size, users |-> 1]
    /\ using' = using - RemovedSize + ret'.size

\* C33: an acquire of a non-resident name with using + size > capacity
\* returns false exactly when the eligible entries (users = 0, not reserved)
\* total less than size, touching nothing then, and when it returns true the
\* eligible entries total at least size and the entries it removed free at
\* least size bytes; with using + size <= capacity it returns true, inserts
\* the entry with users = 1 and evicts nothing.
C33_EvictsFullSize ==
    [][AcquireNewReturned =>
        IF using + ret'.size > capacity
        THEN /\ ret'.result = "false"
                  <=> EligibleTotal(residents, ret'.reserved) < ret'.size
             /\ ret'.result = "false" =>
                  residents' = residents /\ disk' = disk /\ using' = using
             /\ ret'.result = "true" =>
                  /\ EligibleTotal(residents, ret'.reserved) >= ret'.size
                  /\ RemovedSize >= ret'.size
                  /\ InsertedOnce
        ELSE /\ ret'.result = "true"
             /\ Removed = {}
             /\ ret'.evicted = <<>>
             /\ InsertedOnce]_vars

\* C33 witness: an acquire that had to evict returned true although less
\* than size bytes were missing (space is left over after the insert).
C33_Witness ==
    /\ ret.op = "acquire" /\ ret.result = "true" /\ Len(ret.evicted) >= 1
    /\ ret.path \in DOMAIN residents
    /\ residents[ret.path] = [size |-> ret.size, users |-> 1]
    /\ using < capacity

\* the step is a push on the RandomSlots of the OldItemSelector
PushedNow == pb.phase = "loop" /\ pb'.phase = "loop" /\ pb'.count = pb.count + 1
PushedItem == pb'.stream[Len(pb'.stream)]
\* what the push returned: Some only by `return Some(item)`, the item pushed
PushReturned == IF pb'.passed THEN {PushedItem} ELSE {}
\* items held before the push or pushed, and neither held nor returned after
PushLost == (Range(pb.slots) \cup {PushedItem}) \ (Range(pb'.slots) \cup PushReturned)

\* C34 as stated: the sampler loses no item: after a push the items held
\* (at most capacity of them) together with the item returned are exactly
\* the items held before together with the item pushed.
C34_NoItemLost ==
    [][PushedNow =>
        /\ Len(pb'.slots) <= pb.max_items
        /\ PushLost = {}]_vars

\* C34 amended: a push stores the item in a free slot, or replaces slots[p]
\* and returns nothing (the displaced item is dropped), or returns the
\* pushed item as rejected: the pushed item is held or returned, never
\* both, at most capacity items are held, and the only item a push can lose
\* is the one it displaced from a full sampler.
C34_OnlyDisplacedLost ==
    [][PushedNow =>
        /\ Len(pb'.slots) <= pb.max_items
        /\ (PushedItem \in Range(pb'.slots)) # pb'.passed
        /\ Range(pb'.slots) \subseteq Range(pb.slots) \cup {PushedItem}
        /\ Cardinality(PushLost) <= 1
        /\ PushLost # {} =>
              /\ Len(pb.slots) = pb.max_items
              /\ Len(pb'.slots) = pb.max_items
              /\ ~pb'.passed
        /\ Len(pb.slots) < pb.max_items =>
              pb'.slots = Append(pb.slots, PushedItem) /\ ~pb'.passed]_vars

\* C34 witness: the last push replaced a slot of a full sampler: more items
\* were pushed than the sampler holds, and the last one is held.
C34_Witness ==
    /\ pb.phase = "loop" /\ pb.mode = "build"
    /\ pb.max_items >= 1
    /\ pb.count > pb.max_items
    /\ ~pb.passed
    /\ pb.stream # <<>>
    /\ ~IsFresh(pb, pb.stream[Len(pb.stream)])
    /\ pb.stream[Len(pb.stream)] \in Range(pb.slots)

\* C35 as stated: between orchestrator operations each resident's users
\* count is the number of occurrences of its name in current_playlist (0
\* without a playlist), and every item of current_playlist is resident.
C35_UsersMatchPlaylist ==
    mpc = "idle" =>
        /\ \A n \in DOMAIN residents : residents[n].users = Count(playlist.items, n)
        /\ \A n \in Range(playlist.items) : n \in DOMAIN residents

(***************************************************************************)
(* Phoseum::run with a commander that waits for each command to be handled *)
(***************************************************************************)
\* playlist commands the waiting commander sends
MaxSeqCmds == 3

\* a playlist commander sends its next command once the consumer loop is
\* back in recv_timeout with an empty channel
SeqSendPlaylistCmd ==
    /\ Running
    /\ mpc = "idle"
    /\ plq = <<>>
    /\ nsent.pl < MaxSeqCmds
    /\ \E c \in PlaylistCmd : plq' = Append(plq, c)
    /\ nsent' = [nsent EXCEPT !.pl = @ + 1]
    /\ UNCHANGED <<storageVars, cacheVars, builderVars, runVars, libVars, config, playlist,
                   player, plock, mpc, work, pre, mres, ppc, pcmd, pq>>

\* the player consumer thread receives a command of a player commander,
\* locks the player and handles it, seen as one step of the main thread's
\* run (the lock is free before and after)
SeqPlayerCmd ==
    /\ Running
    /\ CanLock("player")
    /\ nsent.player < MaxPlayerCmds
    /\ \E c \in CommanderCmds : player' = handle_player_cmd(player, c)
    /\ nsent' = [nsent EXCEPT !.player = @ + 1]
    /\ UNCHANGED <<storageVars, cacheVars, builderVars, runVars, libVars, config, playlist,
                   plock, mpc, work, pre, mres, ppc, pcmd, plq, pq>>

SeqNext ==
    \/ Start
    \/ RecvPlaylistCmd
    \/ PauseGate
    \/ BuildRefresh
    \/ BuildUpdate
    \/ PrepareItem
    \/ PrepareDone
    \/ ReplaceLock
    \/ ReplaceCheck
    \/ ReplaceUpdate
    \/ SeqSendPlaylistCmd
    \/ SeqPlayerCmd

SeqSpec == Init /\ [][SeqNext]_vars

\* C36 as stated: every path of the list the player accepted last exists on
\* disk for as long as that list is the player's list: no later
\* prepare-items run evicts a file the player is still showing.
C36_PlayerFilesExist == \A n \in Range(player.list) : disk[n] # NoFile

\* C37: the configuration is consumed by the first start() before the
\* player is started (it is gone in every state past the entry of start),
\* so a start() called after a start() that failed returns Ok and changes
\* nothing: the player is not started and no refresh runs.
C37_StartOnlyOnce ==
    /\ [](mpc # "start" => ~config)
    /\ [][StartRetry =>
            /\ mres' = "start_ok"
            /\ mpc' = "exited"
            /\ UNCHANGED <<config, player, playlist, work, plock>>
            /\ UNCHANGED storageVars]_vars

\* C37 witness: start() was called again and returned Ok after the first
\* start() had started the player and failed in its initial refresh: there
\* is still no playlist.
C37_Witness ==
    /\ mpc = "exited" /\ mres = "start_ok"
    /\ ~config /\ player.started /\ ~playlist.set /\ player.list = <<>>

\* no item occurs twice in the sequence
NoDuplicates(s) == \A i, j \in 1..Len(s) : s[i] = s[j] => i = j

\* C38: on an album stream without two items of the same id, the list build
\* returns and the list updated computes contain no item twice, and only
\* items the stream yielded.
C38_NoItemTwice ==
    pb.phase = "done" =>
        /\ NoDuplicates(pb.stream)
        /\ NoDuplicates(pb.result)
        /\ Range(pb.result) \subseteq Range(pb.stream)

\* C38 witness: build returned a fresh item followed by an old one drawn
\* from the sampler, out of a stream of three items.
C38_Witness ==
    /\ Built("build")
    /\ Len(pb.stream) = 3
    /\ Len(pb.result) = 2
    /\ pb.result[1] \in Range(pb.fresh)
    /\ pb.result[2] \in Range(pb.slots)

(***************************************************************************)
(* src/googlephotos/mod.rs: GPhotosAlbumItems, consumed by do_build        *)
(***************************************************************************)
\* pages the album has at most, and items a page has at most
MaxPages == 2
MaxBatch == 2

\* a media item of a page: one GPhotosAlbumItem::new converts, or one it
\* rejects with an error that is not fatal
Kinds == {"ok", "bad"}
Batches == UNION {[1..n -> Kinds] : n \in 0..MaxBatch}

\* album.items(), and the selectors of do_build seen through locked_count
NewItems(max_size) ==
    [pc |-> "loop", cur_batch |-> <<>>, next_token |-> FALSE, end_of_stream |-> FALSE,
     pages |-> 0, failed |-> FALSE, cur |-> "none",
     locked |-> 0, max_size |-> max_size, consumed |-> 0, skipped |-> 0,
     result |-> "none"]

StreamInit ==
    /\ albumItems \in {NewItems(m) : m \in 0..MaxPlaylist}
    /\ vlc = NoVlc
    /\ req = NoReq
    /\ LibIdle

\* what media_items_search can answer: an error, fatal for do_build or not,
\* or a page with or without next_page_token; the album has MaxPages pages
\* at most
NoResp == [ok |-> TRUE, fatal |-> FALSE, items |-> <<>>, token |-> FALSE]
Responses(s) ==
    {[ok |-> FALSE, fatal |-> f, items |-> <<>>, token |-> FALSE] : f \in BOOLEAN}
    \cup {[ok |-> TRUE, fatal |-> FALSE, items |-> b, token |-> t] :
             b \in Batches, t \in {u \in BOOLEAN : u => s.pages + 1 < MaxPages}}

\* self.end_of_stream = true on Err (MarkEndNot: the flag is left as it is)
MarkEndNot(eos) == eos
MarkEnd(eos) == TRUE

\* if !self.end_of_stream && self.cur_batch.is_empty()
Requests(s) == ~s.end_of_stream /\ s.cur_batch = <<>>

\* self.cur_batch.pop_front().map(GPhotosAlbumItem::new)
pop_front(s) ==
    IF s.cur_batch = <<>> THEN [s EXCEPT !.cur = "none"]
    ELSE [s EXCEPT !.cur = IF Head(s.cur_batch) = "ok" THEN "item" ELSE "err",
                   !.cur_batch = Tail(@)]

\* GPhotosAlbumItems::next with the answer r of the server, if it asks
items_next(s, r) ==
    IF Requests(s) /\ ~r.ok
    THEN [s EXCEPT !.next_token = FALSE,
                   !.end_of_stream = MarkEnd(@),
                   !.failed = TRUE,
                   !.cur = IF r.fatal THEN "err_fatal" ELSE "err"]
    ELSE IF Requests(s)
    THEN pop_front([s EXCEPT !.cur_batch = r.items,
                             !.next_token = r.token,
                             !.end_of_stream = ~r.token,
                             !.pages = @ + 1])
    ELSE pop_front(s)

streamFrame == UNCHANGED <<vlc, req>> /\ libFrame

\* do_build: the for loop calls next()
StreamNextCall ==
    /\ albumItems.pc = "loop"
    /\ \E r \in (IF Requests(albumItems) THEN Responses(albumItems) ELSE {NoResp}) :
          albumItems' = [items_next(albumItems, r) EXCEPT !.pc = "body"]
    /\ streamFrame

\* do_build: next() returned None, the loop ends and select runs
StreamEnd ==
    /\ albumItems.pc = "body"
    /\ albumItems.cur = "none"
    /\ albumItems' = [albumItems EXCEPT !.pc = "done", !.result = "ok"]
    /\ streamFrame

\* do_build: if selectors.locked_count() == self.max_size { break; }
StreamBreak ==
    /\ albumItems.pc = "body"
    /\ albumItems.cur # "none"
    /\ albumItems.locked = albumItems.max_size
    /\ albumItems' = [albumItems EXCEPT !.pc = "done", !.result = "ok"]
    /\ streamFrame

\* do_build: Err(e) with e.is_fatal()
StreamFatal ==
    /\ albumItems.pc = "body"
    /\ albumItems.cur = "err_fatal"
    /\ albumItems.locked # albumItems.max_size
    /\ albumItems' = [albumItems EXCEPT !.pc = "failed", !.result = "err"]
    /\ streamFrame

\* do_build: Err(e) that is not fatal: warn!, continue
StreamSkip ==
    /\ albumItems.pc = "body"
    /\ albumItems.cur = "err"
    /\ albumItems.locked # albumItems.max_size
    /\ albumItems' = [albumItems EXCEPT !.pc = "loop", !.skipped = @ + 1]
    /\ streamFrame

\* do_build: selectors.consume(item); the item becomes a locked one or not
StreamConsume ==
    /\ albumItems.pc = "body"
    /\ albumItems.cur = "item"
    /\ albumItems.locked # albumItems.max_size
    /\ \E l \in {albumItems.locked, albumItems.locked + 1} :
          albumItems' = [albumItems EXCEPT !.pc = "loop", !.consumed = @ + 1, !.locked = l]
    /\ streamFrame

StreamNext ==
    \/ StreamNextCall
    \/ StreamEnd
    \/ StreamBreak
    \/ StreamFatal
    \/ StreamSkip
    \/ StreamConsume

StreamSpec == StreamInit /\ [][StreamNext]_vars

\* do_build runs in the thread that called it, and media_items_search
\* returns: the loop keeps taking its next step
FairStreamSpec == StreamSpec /\ WF_vars(StreamNext)

\* the step is a call of next() by the loop of do_build
NextCalled == albumItems.pc = "loop" /\ albumItems'.pc = "body"
StreamErrors == {"err", "err_fatal"}

\* C39: on an album of finitely many pages do_build returns. A page request
\* that fails yields one error and ends the stream (the next call returns
\* None); once the stream is marked ended no page is requested; after a
\* page without next-page token the stream ends when the items of the page
\* have been yielded.
C39_StreamEnds ==
    /\ <>(albumItems.pc \in {"done", "failed"})
    /\ [][NextCalled =>
            /\ albumItems.failed => albumItems'.cur = "none"
            /\ albumItems.end_of_stream =>
                  /\ albumItems'.pages = albumItems.pages
                  /\ albumItems'.failed = albumItems.failed
                  /\ albumItems.cur_batch = <<>> => albumItems'.cur = "none"
            /\ (albumItems'.failed /\ ~albumItems.failed) =>
                  /\ albumItems'.cur \in StreamErrors
                  /\ albumItems'.end_of_stream
                  /\ albumItems'.cur_batch = <<>>
            /\ (albumItems'.pages # albumItems.pages /\ ~albumItems'.next_token) =>
                  albumItems'.end_of_stream]_vars

\* C39 witness: do_build returned Ok at the end of the stream after a page
\* of items and a failed request for the next page, skipped as not fatal.
C39_Witness ==
    /\ albumItems.pc = "done" /\ albumItems.result = "ok"
    /\ albumItems.failed /\ albumItems.cur = "none"
    /\ albumItems.pages = 1 /\ albumItems.consumed >= 1 /\ albumItems.skipped >= 1

(***************************************************************************)
(* src/googlephotos/api.rs: GPhotosApi::request                            *)
(***************************************************************************)
\* largest RetryConfig.max_retries of the model
MaxRetries == 2

\* what builder.send() can give: a response by the class of its status, or
\* an error of reqwest (timeout, HTTP protocol error, or any other);
\* "2xx_bad_body" is a success status whose body resp.json() rejects
SendOutcomes ==
    {"2xx", "2xx_bad_body", "401", "4xx", "3xx", "5xx", "timeout", "http_err", "io_err"}
\* the outcomes after which the loop reaches retry_count += 1
Retried == {"401", "3xx", "5xx", "timeout", "http_err"}

\* let mut retry_count = 0, with self.retry.max_retries
NewReq(max_retries) ==
    [pc |-> "loop", max_retries |-> max_retries, retry_count |-> 0,
     sent |-> <<>>, expired |-> 0, result |-> "none"]

ReqInit ==
    /\ req \in {NewReq(m) : m \in 0..MaxRetries}
    /\ vlc = NoVlc
    /\ albumItems = NoItems
    /\ LibIdle

\* if retry_count > self.retry.max_retries
\* (ExceedsRetriesLate: compared with max_retries + 1)
ExceedsRetriesLate(retry_count, max_retries) == retry_count > max_retries + 1
ExceedsRetries(retry_count, max_retries) == retry_count > max_retries

Returned(s, result) == [s EXCEPT !.pc = "returned", !.result = result]

\* one turn of the loop of request once the token is there: send, then the
\* match on its result, then the retry count
request_send(s0, o) ==
    LET s == [s0 EXCEPT !.sent = Append(@, o)] IN
    CASE o = "2xx" -> Returned(s, "ok")
      [] o = "2xx_bad_body" -> Returned(s, "err_body")
      [] o = "4xx" -> Returned(s, "err_4xx")
      [] o = "io_err" -> Returned(s, "err_io_err")
      [] OTHER ->
           LET e == [s EXCEPT !.expired = IF o = "401" THEN @ + 1 ELSE @,
                              !.retry_count = @ + 1]
           IN IF ExceedsRetries(e.retry_count, e.max_retries)
              THEN Returned(e, "err_" \o o)
              ELSE e

reqFrame == UNCHANGED <<vlc, albumItems>> /\ libFrame

\* self.tokens.obtain_access_token()? fails
ReqTokenFails ==
    /\ req.pc = "loop"
    /\ req' = Returned(req, "err_token")
    /\ reqFrame

\* the token is obtained and the request is sent
ReqSend ==
    /\ req.pc = "loop"
    /\ \E o \in SendOutcomes : req' = request_send(req, o)
    /\ reqFrame

ReqNext == ReqTokenFails \/ ReqSend

ReqSpec == ReqInit /\ [][ReqNext]_vars

\* request runs in the thread that called it; obtain_access_token, send and
\* the backoff sleep return
FairReqSpec == ReqSpec /\ WF_vars(ReqNext)

\* the step sent the request once more
Attempted == Len(req'.sent) = Len(req.sent) + 1
LastSent == req'.sent[Len(req'.sent)]

\* C40: request returns, after at most max_retries + 1 sends. A success
\* status returns at once; a 4xx other than 401 and a transport error that
\* is neither HTTP nor timeout return their error at once; a 401 expires the
\* token; a 401, a 5xx (or other non-success status) and a timeout count a
\* retry, and the error is returned when the count exceeds max_retries,
\* else the loop goes on.
C40_RequestTerminates ==
    /\ <>(req.pc = "returned")
    /\ [](Len(req.sent) <= req.max_retries + 1)
    /\ [][Attempted =>
            /\ req.pc = "loop"
            /\ LastSent \in {"2xx", "2xx_bad_body"} =>
                  /\ req'.pc = "returned"
                  /\ req'.result = (IF LastSent = "2xx" THEN "ok" ELSE "err_body")
                  /\ req'.retry_count = req.retry_count
            /\ LastSent \in {"4xx", "io_err"} =>
                  /\ req'.pc = "returned"
                  /\ req'.result = "err_" \o LastSent
                  /\ req'.retry_count = req.retry_count
            /\ req'.expired = req.expired + (IF LastSent = "401" THEN 1 ELSE 0)
            /\ LastSent \in Retried =>
                  /\ req'.retry_count = req.retry_count + 1
                  /\ IF req.retry_count + 1 > req.max_retries
                     THEN req'.pc = "returned" /\ req'.result = "err_" \o LastSent
                     ELSE req'.pc = "loop" /\ req'.result = "none"]_vars

\* C40 witness: with max_retries = 2 the request was sent three times, a
\* 401 among the answers, and returned the error of the last one, a 5xx.
C40_Witness ==
    /\ req.pc = "returned"
    /\ req.max_retries = 2
    /\ Len(req.sent) = 3
    /\ req.expired >= 1
    /\ req.result = "err_5xx"


====
